---- MODULE Spec2Model ----
(***************************************************************************)
(* A model of the Bernoulli RBM trainer of boltzmann-machine-viz.          *)
(*                                                                         *)
(* Part I  : the training hook (useRBM) and the control flow of            *)
(*           BernoulliRBM.fit: epochs, batches, yield points, progress     *)
(*           callbacks.  Parameter values are abstracted to the number of  *)
(*           updates applied to each model instance.                       *)
(* Part II : the numeric kernels (energy, sigmoid, the three update rules, *)
(*           the snapshot encoding) in fixed-point arithmetic.             *)
(*                                                                         *)
(* JavaScript runs one task at a time: a task that has started runs until  *)
(* it reaches an await on a timer.  The variable cur names the run whose   *)
(* code is executing (0: the event loop is idle); handlers and resumptions *)
(* start only when cur = 0.                                                *)
(***************************************************************************)
EXTENDS Integers, Sequences, FiniteSets, TLC

\* ------------------------------------------------------------------------
\* Bounds of the model
\* ------------------------------------------------------------------------
\* trainNetwork invocations that get past the isTraining guard
MaxRuns == 2
\* length of the dataset the hook hands to fit (the application loads 2000)
HookSamples == 64
\* epochs the hook asks for (the application asks for 15, or 25 when annealing)
HookEpochs == 2
HookEpochsSA == 2
\* arguments of a direct fit call
MaxN == 3
MaxBatchSize == 2
MaxSmallEpochs == 2
\* layer sizes of the models the kernels run on
MaxVisible == 2
MaxHidden == 2
\* proposals of an annealing run the model follows
MaxProposals == 1
\* proposals the model follows to the end of an annealing run
MaxLastProposals == 2
\* samples in one batch of the contrastive-divergence runs
MaxBatch == 2
\* burn-in steps and negative-phase samples of equilibriumLearning
MaxGibbsSteps == 1
MaxNegSamples == 2

\* ------------------------------------------------------------------------
\* Program constants
\* ------------------------------------------------------------------------
CD == "contrastive-divergence"
SA == "simulated-annealing"
EQ == "equilibrium"
Methods == {CD, SA, EQ}

\* batchSize the hook constructs every model with
HookBatchSize == 32
\* fit, equilibrium branch: data.slice(0, Math.min(20, ...)), Math.min(10, nEpochs)
EqDataCap == 20
EqEpochCap == 10
\* fit, annealing branch: data.slice(0, Math.min(10, ...)), Math.min(25, nEpochs)
SaDataCap == 10
SaEpochCap == 25
\* the hook picks 10 samples for annealing
HookSaSamples == 10
\* if (batchIdx % 5 === 0) await ...
YieldEvery == 5

Min(a, b) == IF a < b THEN a ELSE b
Max(a, b) == IF a > b THEN a ELSE b
CeilDiv(a, b) == (a + b - 1) \div b

Runs == 1..MaxRuns
\* instance ids: the model run k of trainNetwork constructs is k; the models
\* loadFromLocalStorage constructs are never handed to fit and share one id
Loaded == MaxRuns + 1
Instances == 1..Loaded

VARIABLES
    \* ---- useRBM state
    isTraining,      \* useState(false)
    rbm,             \* useState(null): the published instance, 0 for null
    abortCurrent,    \* abortController.current: the run that made it, 0 for null
    aborted,         \* abortController.current.signal.aborted
    stored,          \* localStorage holds an 'rbm_weights' entry
    nextRun,         \* the next trainNetwork invocation
    tpc,             \* run -> position of that trainNetwork invocation
    tMethod,         \* run -> trainingMethod captured by the invocation
    newRBM,          \* run -> the instance it constructed and fits, 0 before
    stopPhase,       \* run -> "none" | "requested" | "yielded" (observer)
    cur,             \* the run whose task is executing, 0: event loop idle
    \* ---- one fit invocation per run
    fMethod,         \* run -> this.trainingMethod
    fN,              \* run -> data.length
    fBatch,          \* run -> this.batchSize
    fEpochsArg,      \* run -> nEpochs
    fpc,             \* run -> position in fit
    epoch,           \* run -> epoch loop variable
    batchIdx,        \* run -> batch loop variable
    events,          \* run -> what its fit has done so far, in order
    updates,         \* run -> trainer calls of its fit that wrote parameters
    fitsOn           \* instance -> fit invocations in progress

hookVars == <<isTraining, rbm, abortCurrent, aborted, stored,
              nextRun, tpc, tMethod, newRBM, stopPhase, cur>>
fitVars == <<fMethod, fN, fBatch, fEpochsArg, fpc, epoch, batchIdx,
             events, updates, fitsOn>>

VARIABLES
    \* ---- one BernoulliRBM instance, its fields in fixed point
    nVisible,        \* this.nVisible
    nHidden,         \* this.nHidden
    learningRate,    \* this.learningRate
    weights,         \* this.weights: nHidden rows of nVisible entries
    hiddenBias,      \* this.hiddenBias
    visibleBias,     \* this.visibleBias
    modelMethod,     \* this.trainingMethod
    \* ---- the trainer call under way on it
    data,            \* the samples handed to the trainer
    kpc,             \* position in the trainer
    fromFresh,       \* the parameters descend from a fresh model by
                     \* annealing updates on samples of [0, 1] (observer)
    \* ---- locals of simulatedAnnealing
    temperature,
    step,
    acceptedMoves,
    currentSample,
    currentHidden,
    currentEnergy,
    proposedSample,
    proposedHidden,
    proposedEnergy,
    energyDiff,
    lastOutcome,     \* how the last proposal ended (observer)
    stepsLeft,       \* proposals the model still follows
    currentSampleRef,  \* the array currentSample refers to: OwnArray, or
                       \* k when it is the k-th sample of data itself
    proposedSampleRef, \* the array proposedSample refers to, likewise
    currentHiddenRef,  \* the array currentHidden refers to
    proposedHiddenRef, \* the array proposedHidden refers to
    paramUpdates,    \* passes through the update block so far (observer)
    \* ---- locals of contrastiveDivergence, after its accumulation loop
    weightGrad,
    hiddenGrad,
    visibleGrad,
    \* ---- parameters and locals of equilibriumLearning
    gibbsSteps,      \* burn-in steps asked for
    negPhaseSamples, \* negative-phase samples asked for
    gibbsI,          \* i of the burn-in loop
    negS,            \* s of the sampling loop
    gibbsV,          \* v, the visible state of the chain
    gibbsH,          \* h, the hidden state of the chain
    posPhase,
    posHidden,
    posVisible,
    negPhase,
    negHidden,
    negVisible,
    twinRate,        \* learningRate of a second model, equal to this one
                     \* in everything else, on which the same call runs
                     \* with the same batch and the same random draws
    twinParams,      \* <<weights, hiddenBias, visibleBias>> of that model
    \* ---- a call of computeEnergy or reconstruct
    callVisible,     \* the visible vector or sample passed
    callHidden,      \* the hidden vector passed
    returned,        \* what the call returned
    \* ---- the batches fit forms in one epoch
    indices,         \* the shuffled index array of the epoch
    batchIndices,    \* the idx values read for the batch last formed
    usedIndices,     \* the idx values of all batches of the epoch, in order
    \* ---- localStorage and the result of loadFromLocalStorage
    item,            \* the 'rbm_weights' entry of localStorage
    saved,           \* what saveToLocalStorage returned
    loaded           \* what loadFromLocalStorage returned

modelVars == <<nVisible, nHidden, learningRate, weights, hiddenBias,
               visibleBias, modelMethod>>
saVars == <<temperature, step, acceptedMoves, currentSample, currentHidden,
            currentEnergy, proposedSample, proposedHidden, proposedEnergy,
            energyDiff, lastOutcome, stepsLeft, currentSampleRef,
            proposedSampleRef, currentHiddenRef, proposedHiddenRef,
            paramUpdates>>
cdVars == <<weightGrad, hiddenGrad, visibleGrad>>
storeVars == <<item, saved, loaded>>
eqVars == <<gibbsSteps, negPhaseSamples, gibbsI, negS, gibbsV, gibbsH,
            posPhase, posHidden, posVisible, negPhase, negHidden, negVisible,
            twinRate, twinParams>>
callVars == <<callVisible, callHidden, returned>>
shuffleVars == <<indices, batchIndices, usedIndices>>
kernelVars == <<modelVars, data, kpc, fromFresh, saVars, cdVars, eqVars,
                callVars, shuffleVars, storeVars>>

vars == <<hookVars, fitVars, kernelVars>>

\* ------------------------------------------------------------------------
\* BernoulliRBM.fit: derived quantities
\* ------------------------------------------------------------------------
\* reducedData.length / nSamples
ReducedN(r) ==
    CASE fMethod[r] = EQ -> Min(EqDataCap, fN[r])
      [] fMethod[r] = SA -> Min(SaDataCap, fN[r])
      [] OTHER -> fN[r]

\* reducedEpochs / nEpochs: the bound of the epoch loop
TotalEpochs(r) ==
    CASE fMethod[r] = EQ -> Min(EqEpochCap, fEpochsArg[r])
      [] fMethod[r] = SA -> Min(SaEpochCap, fEpochsArg[r])
      [] OTHER -> fEpochsArg[r]

\* a fit that reports the requested epochs, not the capped count it runs
CallbackTotal_requested(r) == fEpochsArg[r]

\* the second argument handed to progressCallback
CallbackTotal(r) == TotalEpochs(r)

\* the batches counted with Math.ceil in every branch
NBatches_ceil(r) == CeilDiv(ReducedN(r), fBatch[r])

\* nBatches
NBatches(r) ==
    CASE fMethod[r] = EQ -> CeilDiv(ReducedN(r), fBatch[r])
      [] fMethod[r] = SA -> 0
      [] OTHER -> fN[r] \div fBatch[r]

\* realBatchSize (equilibrium) / this.batchSize (contrastive divergence)
RealBatchSize(r) ==
    IF fMethod[r] = EQ THEN Min(fBatch[r], ReducedN(r)) ELSE fBatch[r]

\* positions (0-based) of the shuffled index array one batch reads
BatchPositions(r, b) ==
    { b * RealBatchSize(r) + i : i \in 0..(RealBatchSize(r) - 1) }

\* a batch that reads past the end of indices holds an undefined sample;
\* sampleHidden(undefined) throws a TypeError
BatchHasUndefined(r, b) == \E p \in BatchPositions(r, b) : p >= ReducedN(r)

YieldPcs == {"yieldBatch", "yieldEpoch"}

\* the entries of events: a trainer call made during epoch k
\* (contrastiveDivergence, equilibriumLearning or simulatedAnnealing: the
\* only code of fit that writes parameters), and a progressCallback(k, total)
TrainEvent(k) == <<"train", k>>
CallbackEvent(r, k) == <<"callback", k, CallbackTotal(r)>>

\* the state in which a stretch of fit leaves the invocation; wrote is the
\* number of trainer calls of the stretch that wrote the parameters
FitState(pc, e, b, ev, wrote) ==
    [pc |-> pc, epoch |-> e, batchIdx |-> b, events |-> ev, wrote |-> wrote]

\* ------------------------------------------------------------------------
\* BernoulliRBM.fit.  A stretch of fit runs from one await to the next (or
\* to the return, or to a throw) with nothing in between: the operators
\* below compute where a stretch ends, the actions apply a stretch.
\* ------------------------------------------------------------------------
\* the batch loop of epoch e from batch b on: contrastiveDivergence(batch) or
\* equilibriumLearning(batch), the await after every YieldEvery-th batch,
\* and after the last batch progressCallback and the end-of-epoch await
RECURSIVE RunBatches(_, _, _, _, _)
RunBatches(r, e, b, ev, w) ==
    IF b < NBatches(r)
      THEN IF BatchHasUndefined(r, b)
             THEN FitState("threw", e, b, ev, w)
             ELSE IF b % YieldEvery = 0
                    THEN FitState("yieldBatch", e, b,
                                  Append(ev, TrainEvent(e + 1)), w + 1)
                    ELSE RunBatches(r, e, b + 1,
                                    Append(ev, TrainEvent(e + 1)), w + 1)
      ELSE FitState("yieldEpoch", e, b,
                    Append(ev, CallbackEvent(r, e + 1)), w)

\* the annealing branch's epoch: progressCallback, then simulatedAnnealing
\* (data[0].slice() throws on an empty dataset; the call writes the
\* parameters on every tenth accepted move, so it may write or not), then
\* the await
RunAnnealEpoch(r, e, ev, annealWrote) ==
    LET called == Append(ev, CallbackEvent(r, e + 1)) IN
    IF ReducedN(r) = 0
      THEN FitState("threw", e, 0, called, 0)
      ELSE FitState("yieldEpoch", e, 0, Append(called, TrainEvent(e + 1)),
                    IF annealWrote THEN 1 ELSE 0)

\* the top of the epoch loop with loop variable e; after the loop the
\* equilibrium branch evaluates sampleHidden(reducedData[0]), which throws
\* on an empty dataset
RunEpoch(r, e, ev, annealWrote) ==
    IF e < TotalEpochs(r)
      THEN IF fMethod[r] = SA
             THEN RunAnnealEpoch(r, e, ev, annealWrote)
             ELSE RunBatches(r, e, 0, ev, 0)
      ELSE IF fMethod[r] = EQ /\ ReducedN(r) = 0
             THEN FitState("threw", e, 0, ev, 0)
             ELSE FitState("done", e, 0, ev, 0)

\* the choices a stretch from the top of epoch e has: whether the
\* annealing call it makes, if it makes one, writes
AnnealChoices(r, e) ==
    IF fMethod[r] = SA /\ e < TotalEpochs(r) /\ ReducedN(r) > 0
      THEN BOOLEAN ELSE {FALSE}

\* a stretch of run r's fit ends in state s: at an await the task ends and
\* the event loop is idle again; at a return or a throw the promise settles
\* and the caller goes on in the same task
EndStretch(r, s) ==
    /\ UNCHANGED kernelVars
    /\ fpc' = [fpc EXCEPT ![r] = s.pc]
    /\ epoch' = [epoch EXCEPT ![r] = s.epoch]
    /\ batchIdx' = [batchIdx EXCEPT ![r] = s.batchIdx]
    /\ events' = [events EXCEPT ![r] = s.events]
    /\ updates' = [updates EXCEPT ![r] = @ + s.wrote]
    /\ IF s.pc \in YieldPcs
         THEN /\ cur' = 0
              /\ stopPhase' = [stopPhase EXCEPT
                                 ![r] = IF @ = "requested" THEN "yielded" ELSE @]
              /\ UNCHANGED fitsOn
         ELSE /\ cur' = r
              /\ fitsOn' = [fitsOn EXCEPT ![newRBM[r]] = @ - 1]
              /\ UNCHANGED stopPhase
    /\ UNCHANGED <<isTraining, rbm, abortCurrent, aborted, stored, nextRun, tpc, tMethod, newRBM, fMethod, fN, fBatch,
                   fEpochsArg>>

\* fit is called: it runs in the caller's task up to its first await
FitCall(r) ==
    /\ cur = r /\ fpc[r] = "called"
    /\ \E w \in AnnealChoices(r, 0) : EndStretch(r, RunEpoch(r, 0, <<>>, w))

\* setTimeout(resolve, 0) fires: batchIdx++ and the batch loop goes on
FitResumeBatch(r) ==
    /\ cur = 0 /\ fpc[r] = "yieldBatch"
    /\ EndStretch(r, RunBatches(r, epoch[r], batchIdx[r] + 1, events[r], 0))

\* the end-of-epoch timer fires: epoch++ and the epoch loop goes on
FitResumeEpoch(r) ==
    /\ cur = 0 /\ fpc[r] = "yieldEpoch"
    /\ \E w \in AnnealChoices(r, epoch[r] + 1) :
         EndStretch(r, RunEpoch(r, epoch[r] + 1, events[r], w))

FitStep(r) ==
    \/ FitCall(r)
    \/ FitResumeBatch(r)
    \/ FitResumeEpoch(r)

\* what the events say: the trainer calls and the progressCallback calls
TrainIndices(ev) == {i \in DOMAIN ev : ev[i][1] = "train"}
CallbackIndices(ev) == {i \in DOMAIN ev : ev[i][1] = "callback"}

\* the arguments of the progressCallback calls, in the order of the calls
Callbacks(ev) ==
    LET called == SelectSeq(ev, LAMBDA e : e[1] = "callback") IN
    [i \in 1..Len(called) |-> <<called[i][2], called[i][3]>>]

\* ------------------------------------------------------------------------
\* useRBM: the handlers of the training hook
\* ------------------------------------------------------------------------
\* abortController.current?.signal.aborted
CurrentAborted == abortCurrent # 0 /\ aborted

\* a hook that constructs one model and hands it to every run
NewInstance_shared(r) == 1

\* const newRBM = new BernoulliRBM({...}): a fresh instance, run r's own
NewInstance(r) == r

\* the arguments trainNetwork hands to fit
HookEpochsFor(m) == IF m = SA THEN HookEpochsSA ELSE HookEpochs

\* datasets loadData may resolve with: the usual one, or an empty one
HookDataLengths == {0, HookSamples}

\* finally { setIsTraining(false); ... }: the invocation ends and its locals
\* (and the observers of its fit) go with it
Finally(r) ==
    /\ UNCHANGED kernelVars
    /\ isTraining' = FALSE
    /\ tpc' = [tpc EXCEPT ![r] = "done"]
    /\ cur' = 0
    /\ tMethod' = [tMethod EXCEPT ![r] = CD]
    /\ stopPhase' = [stopPhase EXCEPT ![r] = "none"]
    /\ fMethod' = [fMethod EXCEPT ![r] = CD]
    /\ fN' = [fN EXCEPT ![r] = 0]
    /\ fBatch' = [fBatch EXCEPT ![r] = 1]
    /\ fEpochsArg' = [fEpochsArg EXCEPT ![r] = 0]
    /\ fpc' = [fpc EXCEPT ![r] = "idle"]
    /\ epoch' = [epoch EXCEPT ![r] = 0]
    /\ batchIdx' = [batchIdx EXCEPT ![r] = 0]
    /\ events' = [events EXCEPT ![r] = <<>>]
    /\ updates' = [updates EXCEPT ![r] = 0]
    /\ newRBM' = [newRBM EXCEPT ![r] = 0]
    /\ UNCHANGED <<abortCurrent, aborted, nextRun, fitsOn>>

\* trainNetwork while isTraining: if (isTraining) return
TrainNetworkBusy ==
    /\ cur = 0
    /\ isTraining
    /\ UNCHANGED vars

\* trainNetwork up to await loadData(true); trainingMethod is the value of
\* the hook's trainingMethod state at the call, which
\* handleTrainingMethodChange sets to any method between calls
TrainNetwork(trainingMethod) ==
    /\ UNCHANGED kernelVars
    /\ cur = 0
    /\ ~isTraining
    /\ nextRun <= MaxRuns
    /\ isTraining' = TRUE
    /\ abortCurrent' = nextRun
    /\ aborted' = FALSE
    /\ tpc' = [tpc EXCEPT ![nextRun] = "loading"]
    /\ tMethod' = [tMethod EXCEPT ![nextRun] = trainingMethod]
    /\ nextRun' = nextRun + 1
    /\ UNCHANGED <<rbm, stored, newRBM,
                   stopPhase, cur, fitVars>>

\* loadData rejects: catch, finally
TrainLoadFails(r) ==
    /\ cur = 0 /\ tpc[r] = "loading"
    /\ Finally(r)
    /\ UNCHANGED <<rbm, stored>>

\* loadData resolves and the abort check returns: finally
TrainLoadedAborted(r) ==
    /\ cur = 0 /\ tpc[r] = "loading"
    /\ CurrentAborted
    /\ Finally(r)
    /\ UNCHANGED <<rbm, stored>>

\* annealing on a dataset of fewer than 10 samples: the selection loop
\* while (selectedIndices.size < 10) never ends and the task never returns
TrainSelectHangs(r) ==
    /\ UNCHANGED kernelVars
    /\ cur = 0 /\ tpc[r] = "loading"
    /\ ~CurrentAborted
    /\ tMethod[r] = SA
    /\ \E n \in HookDataLengths : n < HookSaSamples
    /\ tpc' = [tpc EXCEPT ![r] = "hung"]
    /\ cur' = r
    /\ UNCHANGED <<isTraining, rbm, abortCurrent, aborted,
                   stored, nextRun, tMethod, newRBM, stopPhase,
                   fitVars>>

\* loadData resolves, no abort seen: the model is constructed and fit is
\* called; fit runs on in the same task up to its first await
TrainStartFit(r) ==
    /\ UNCHANGED kernelVars
    /\ cur = 0 /\ tpc[r] = "loading"
    /\ ~CurrentAborted
    /\ LET inst == NewInstance(r) IN
         /\ newRBM' = [newRBM EXCEPT ![r] = inst]
         /\ fitsOn' = [fitsOn EXCEPT ![inst] = @ + 1]
    /\ tpc' = [tpc EXCEPT ![r] = "fitting"]
    /\ fMethod' = [fMethod EXCEPT ![r] = tMethod[r]]
    /\ \E n \in HookDataLengths :
         /\ tMethod[r] = SA => n >= HookSaSamples
         /\ fN' = [fN EXCEPT ![r] = IF tMethod[r] = SA THEN HookSaSamples ELSE n]
    /\ fBatch' = [fBatch EXCEPT ![r] = HookBatchSize]
    /\ fEpochsArg' = [fEpochsArg EXCEPT ![r] = HookEpochsFor(tMethod[r])]
    /\ fpc' = [fpc EXCEPT ![r] = "called"]
    /\ cur' = r
    /\ UNCHANGED <<isTraining, rbm, abortCurrent, aborted, stored, nextRun,
                   tMethod, stopPhase, epoch, batchIdx, events, updates>>

\* fit rejected: catch, finally
TrainFitThrew(r) ==
    /\ cur = r /\ tpc[r] = "fitting" /\ fpc[r] = "threw"
    /\ Finally(r)
    /\ UNCHANGED <<rbm, stored>>

\* fit resolved and the abort check returns: finally
TrainFitDoneAborted(r) ==
    /\ cur = r /\ tpc[r] = "fitting" /\ fpc[r] = "done"
    /\ CurrentAborted
    /\ Finally(r)
    /\ UNCHANGED <<rbm, stored>>

\* fit resolved, no abort seen: setRBM(newRBM), save unless the
\* 'rbm_save_weights' entry forbids it, finally
TrainPublish(r) ==
    /\ cur = r /\ tpc[r] = "fitting" /\ fpc[r] = "done"
    /\ ~CurrentAborted
    /\ rbm' = newRBM[r]
    /\ \E saveWeights \in BOOLEAN :
         stored' = IF saveWeights THEN TRUE ELSE stored
    /\ Finally(r)

\* stopTraining
StopTraining ==
    /\ UNCHANGED kernelVars
    /\ cur = 0
    /\ abortCurrent # 0
    /\ aborted' = TRUE
    /\ isTraining' = FALSE
    /\ stopPhase' = [r \in Runs |->
                       IF r = abortCurrent /\ tpc[r] = "fitting"
                          /\ stopPhase[r] = "none"
                         THEN "requested" ELSE stopPhase[r]]
    /\ UNCHANGED <<rbm, abortCurrent, stored, nextRun, tpc, tMethod, newRBM, cur, fitVars>>

\* stopTraining before any training: abortController.current is null
StopTrainingNoop ==
    /\ cur = 0
    /\ abortCurrent = 0
    /\ UNCHANGED vars

\* loadSavedWeights with a snapshot in the store: a new instance is published
LoadSavedWeights ==
    /\ UNCHANGED kernelVars
    /\ cur = 0
    /\ stored
    /\ rbm' = Loaded
    /\ UNCHANGED <<isTraining, abortCurrent, aborted, stored,
                   nextRun, tpc, tMethod, newRBM, stopPhase, cur, fitVars>>

\* loadSavedWeights with nothing stored: loadFromLocalStorage returns null
LoadSavedWeightsNone ==
    /\ cur = 0
    /\ ~stored
    /\ UNCHANGED vars

\* the kernel variables at rest, for the specifications of the hook and fit
InitModelIdle ==
    /\ nVisible = 0 /\ nHidden = 0 /\ learningRate = 0
    /\ weights = <<>> /\ hiddenBias = <<>> /\ visibleBias = <<>>
    /\ modelMethod = CD
    /\ data = <<>> /\ kpc = "idle" /\ fromFresh = TRUE

\* an array the engine allocated itself, as against the k-th (k >= 1)
\* sample of data
OwnArray == 0

InitSaIdle ==
    /\ temperature = 0 /\ step = 0 /\ acceptedMoves = 0
    /\ currentSample = <<>> /\ currentHidden = <<>> /\ currentEnergy = 0
    /\ proposedSample = <<>> /\ proposedHidden = <<>> /\ proposedEnergy = 0
    /\ energyDiff = 0 /\ lastOutcome = "none" /\ stepsLeft = 0
    /\ currentSampleRef = OwnArray /\ proposedSampleRef = OwnArray
    /\ currentHiddenRef = OwnArray /\ proposedHiddenRef = OwnArray
    /\ paramUpdates = 0

InitCdIdle ==
    /\ weightGrad = <<>> /\ hiddenGrad = <<>> /\ visibleGrad = <<>>

\* no call made: nothing returned
NotReturned == [kind |-> "none", energy |-> 0, hidden |-> <<>>,
                reconstruction |-> <<>>]

InitShuffleIdle ==
    /\ indices = <<>> /\ batchIndices = <<>> /\ usedIndices = <<>>

InitCallIdle ==
    /\ callVisible = <<>> /\ callHidden = <<>> /\ returned = NotReturned

InitEqIdle ==
    /\ gibbsSteps = 0 /\ negPhaseSamples = 0 /\ gibbsI = 0 /\ negS = 0
    /\ gibbsV = <<>> /\ gibbsH = <<>>
    /\ posPhase = <<>> /\ posHidden = <<>> /\ posVisible = <<>>
    /\ negPhase = <<>> /\ negHidden = <<>> /\ negVisible = <<>>
    /\ twinRate = 0 /\ twinParams = <<>>

\* localStorage without an 'rbm_weights' entry: getItem returns null
NoItem ==
    [kind |-> "none", nVisible |-> 0, nHidden |-> 0, hasWeights |-> FALSE,
     weights |-> <<>>, hiddenBias |-> <<>>, visibleBias |-> <<>>,
     trainingMethod |-> ""]

\* loadFromLocalStorage has not been called; it has returned null
NotLoaded ==
    [kind |-> "notCalled", nVisible |-> 0, nHidden |-> 0, weights |-> <<>>,
     hiddenBias |-> <<>>, visibleBias |-> <<>>, trainingMethod |-> ""]

LoadedNull == [NotLoaded EXCEPT !.kind = "null"]

InitStoreIdle ==
    /\ item = NoItem /\ saved = "notCalled" /\ loaded = NotLoaded

InitKernelIdle ==
    InitModelIdle /\ InitSaIdle /\ InitCdIdle /\ InitEqIdle /\ InitCallIdle /\ InitShuffleIdle /\ InitStoreIdle

InitFit ==
    /\ fMethod = [r \in Runs |-> CD]
    /\ fN = [r \in Runs |-> 0]
    /\ fBatch = [r \in Runs |-> 1]
    /\ fEpochsArg = [r \in Runs |-> 0]
    /\ fpc = [r \in Runs |-> "idle"]
    /\ epoch = [r \in Runs |-> 0]
    /\ batchIdx = [r \in Runs |-> 0]
    /\ events = [r \in Runs |-> <<>>]
    /\ updates = [r \in Runs |-> 0]
    /\ fitsOn = [i \in Instances |-> 0]

InitHook ==
    /\ isTraining = FALSE
    /\ rbm = 0
    /\ abortCurrent = 0
    /\ aborted = FALSE
    /\ nextRun = 1
    /\ tpc = [r \in Runs |-> "idle"]
    /\ tMethod = [r \in Runs |-> CD]
    /\ stopPhase = [r \in Runs |-> "none"]

\* the hook after mounting; the store may hold a snapshot of an earlier session
Init ==
    /\ InitHook
    /\ newRBM = [r \in Runs |-> 0]
    /\ cur = 0
    /\ stored \in BOOLEAN
    /\ InitFit
    /\ InitKernelIdle

Next ==
    \/ \E m \in Methods : TrainNetwork(m)
    \/ TrainNetworkBusy
    \/ StopTraining
    \/ StopTrainingNoop
    \/ LoadSavedWeights
    \/ LoadSavedWeightsNone
    \/ \E r \in Runs : TrainLoadFails(r)
    \/ \E r \in Runs : TrainLoadedAborted(r)
    \/ \E r \in Runs : TrainSelectHangs(r)
    \/ \E r \in Runs : TrainStartFit(r)
    \/ \E r \in Runs : TrainFitThrew(r)
    \/ \E r \in Runs : TrainFitDoneAborted(r)
    \/ \E r \in Runs : TrainPublish(r)
    \/ \E r \in Runs : FitCall(r)
    \/ \E r \in Runs : FitResumeBatch(r)
    \/ \E r \in Runs : FitResumeEpoch(r)

Spec == Init /\ [][Next]_vars

\* ------------------------------------------------------------------------
\* A single fit called directly, with arguments drawn from small sets
\* ------------------------------------------------------------------------
EpochArgs == (0..MaxSmallEpochs) \cup {EqEpochCap + 1, SaEpochCap + 1}

InitDirectFit ==
    /\ InitHook
    /\ newRBM = [r \in Runs |-> IF r = 1 THEN 1 ELSE 0]
    /\ cur = 1
    /\ stored = FALSE
    /\ \E m \in Methods, n \in 0..MaxN, b \in 1..MaxBatchSize, e \in EpochArgs :
         /\ fMethod = [r \in Runs |-> IF r = 1 THEN m ELSE CD]
         /\ fN = [r \in Runs |-> IF r = 1 THEN n ELSE 0]
         /\ fBatch = [r \in Runs |-> IF r = 1 THEN b ELSE 1]
         /\ fEpochsArg = [r \in Runs |-> IF r = 1 THEN e ELSE 0]
    /\ fpc = [r \in Runs |-> IF r = 1 THEN "called" ELSE "idle"]
    /\ epoch = [r \in Runs |-> 0]
    /\ batchIdx = [r \in Runs |-> 0]
    /\ events = [r \in Runs |-> <<>>]
    /\ updates = [r \in Runs |-> 0]
    /\ fitsOn = [i \in Instances |-> IF i = 1 THEN 1 ELSE 0]
    /\ InitKernelIdle

NextFit == FitStep(1)

SpecFit == InitDirectFit /\ [][NextFit]_vars

\* ------------------------------------------------------------------------
\* Numbers.  A finite number x is held as the integer x * Q (four decimal
\* places, products truncated); NaN and the two infinities are integers of
\* their own, the infinities beyond every finite value of the model.
\* ------------------------------------------------------------------------
Q == 10^4
PosInf == 2^30
NegInf == -(2^30)
NaN == 2^30 + 1

\* isFinite(x)
IsFinite(x) == x \notin {NaN, PosInf, NegInf}

Sign(x) == IF x > 0 THEN 1 ELSE IF x < 0 THEN -1 ELSE 0
Abs(x) == IF x < 0 THEN -x ELSE x

\* -x, a + b, a - b, a * b, a / n for a count n, as IEEE arithmetic does them
Neg(x) == IF x = NaN THEN NaN ELSE -x
Add(a, b) ==
    IF a = NaN \/ b = NaN THEN NaN
    ELSE IF a = PosInf THEN (IF b = NegInf THEN NaN ELSE PosInf)
    ELSE IF a = NegInf THEN (IF b = PosInf THEN NaN ELSE NegInf)
    ELSE IF ~IsFinite(b) THEN b
    ELSE a + b
Sub(a, b) == Add(a, Neg(b))
Mul(a, b) ==
    IF a = NaN \/ b = NaN THEN NaN
    ELSE IF ~IsFinite(a) \/ ~IsFinite(b)
      THEN IF a = 0 \/ b = 0 THEN NaN
           ELSE IF Sign(a) * Sign(b) > 0 THEN PosInf ELSE NegInf
    ELSE Sign(a) * Sign(b) * ((Abs(a) * Abs(b)) \div Q)
DivCount(a, n) ==
    IF ~IsFinite(a) THEN a ELSE Sign(a) * (Abs(a) \div n)

\* a <= b, a > b: false whenever an operand is NaN
Le(a, b) == a # NaN /\ b # NaN /\ a <= b
Gt(a, b) == a # NaN /\ b # NaN /\ a > b

\* Math.max, Math.min: NaN whenever an operand is NaN
MathMax(a, b) == IF a = NaN \/ b = NaN THEN NaN ELSE IF a > b THEN a ELSE b
MathMin(a, b) == IF a = NaN \/ b = NaN THEN NaN ELSE IF a < b THEN a ELSE b

\* Math.max(-c, Math.min(c, x))
Clamp(c, x) == MathMax(-c, MathMin(c, x))

\* 1 / (1 + Math.exp(-x)): the values at 0, 0.5, ..., 6, linear in between
\* and level beyond; sigmoid(-x) = 1 - sigmoid(x)
SigmoidKnots ==
    <<5000, 6225, 7311, 8176, 8808, 9241, 9526, 9707, 9820, 9890, 9933,
      9959, 9975>>
KnotStep == Q \div 2
SigmoidPos(x) ==
    LET k == x \div KnotStep IN
    IF k + 1 >= Len(SigmoidKnots)
      THEN SigmoidKnots[Len(SigmoidKnots)]
      ELSE SigmoidKnots[k + 1]
           + ((SigmoidKnots[k + 2] - SigmoidKnots[k + 1]) * (x % KnotStep))
             \div KnotStep
sigmoid(x) ==
    IF x = NaN THEN NaN
    ELSE IF x = PosInf THEN Q
    ELSE IF x = NegInf THEN 0
    ELSE IF x >= 0 THEN SigmoidPos(x) ELSE Q - SigmoidPos(-x)

RECURSIVE SumSeq(_)
SumSeq(s) == IF s = <<>> THEN 0 ELSE Add(Head(s), SumSeq(Tail(s)))

\* ------------------------------------------------------------------------
\* The kernels of BernoulliRBM, on parameters W (weights), hb, vb
\* ------------------------------------------------------------------------
\* hiddenBias[i] + sum over j of visible[j] * weights[i][j]
HiddenActivation(W, hb, visible, i) ==
    Add(hb[i], SumSeq([j \in DOMAIN visible |-> Mul(visible[j], W[i][j])]))

\* visibleBias[i] + sum over j of hidden[j] * weights[j][i]
VisibleActivation(W, vb, hidden, i) ==
    Add(vb[i], SumSeq([j \in DOMAIN hidden |-> Mul(hidden[j], W[j][i])]))

\* sampleHidden, sampleVisible: the mean-field probabilities
MeanHidden(W, hb, visible) ==
    [i \in DOMAIN hb |-> sigmoid(HiddenActivation(W, hb, visible, i))]
MeanVisible(W, vb, hidden) ==
    [i \in DOMAIN vb |-> sigmoid(VisibleActivation(W, vb, hidden, i))]
sampleHidden(visible) == MeanHidden(weights, hiddenBias, visible)
sampleVisible(hidden) == MeanVisible(weights, visibleBias, hidden)

\* the interaction term added instead of subtracted
Energy_plusInteraction(W, hb, vb, visible, hidden) ==
    LET visibleTerm == SumSeq([i \in DOMAIN vb |-> Mul(vb[i], visible[i])])
        hiddenTerm == SumSeq([j \in DOMAIN hb |-> Mul(hb[j], hidden[j])])
        pair(i, j) == Mul(Mul(W[j][i], visible[i]), hidden[j])
        interaction ==
            SumSeq([i \in DOMAIN vb |->
                      SumSeq([j \in DOMAIN hb |-> pair(i, j)])])
    IN Add(Sub(Sub(0, visibleTerm), hiddenTerm), interaction)

\* computeEnergy: minus the bias terms, minus the interaction term
Energy(W, hb, vb, visible, hidden) ==
    LET visibleTerm == SumSeq([i \in DOMAIN vb |-> Mul(vb[i], visible[i])])
        hiddenTerm == SumSeq([j \in DOMAIN hb |-> Mul(hb[j], hidden[j])])
        pair(i, j) == Mul(Mul(W[j][i], visible[i]), hidden[j])
        interaction ==
            SumSeq([i \in DOMAIN vb |->
                      SumSeq([j \in DOMAIN hb |-> pair(i, j)])])
    IN Sub(Sub(Sub(0, visibleTerm), hiddenTerm), interaction)

computeEnergy(visible, hidden) ==
    Energy(weights, hiddenBias, visibleBias, visible, hidden)

\* a reconstruction that hands the sample back
reconstruct_echo(sample) ==
    [kind |-> "reconstruct", energy |-> 0, hidden |-> sampleHidden(sample),
     reconstruction |-> sample]

\* reconstruct: the hidden probabilities of the sample and the visible
\* probabilities of those
reconstruct(sample) ==
    [kind |-> "reconstruct", energy |-> 0, hidden |-> sampleHidden(sample),
     reconstruction |-> sampleVisible(sampleHidden(sample))]

\* Math.random() < prob ? 1 : 0 : the values the draw can give.  The draw is
\* in [0, 1): it is never below 0, always below 1, never below NaN.
BinaryDraws(prob) ==
    IF prob = NaN \/ Le(prob, 0) THEN {0}
    ELSE IF Le(Q, prob) THEN {Q}
    ELSE {0, Q}

\* the vectors binary sampling can give for the probabilities probs
BinaryVectors(probs) ==
    {v \in [DOMAIN probs -> {0, Q}] : \A i \in DOMAIN probs : v[i] \in BinaryDraws(probs[i])}

\* ------------------------------------------------------------------------
\* simulatedAnnealing
\* ------------------------------------------------------------------------
InitialTemperature == 2 * Q
FinalTemperature == Q \div 10
CoolingRate == (99 * Q) \div 100
StepsPerTemperature == 50
\* Math.min(3, this.nHidden) hidden units are drawn per proposal
MaxFlips == 3
\* if (acceptedMoves % 10 === 0)
UpdateEvery == 10
\* lr = this.learningRate * 0.01
SaRateFactor == Q \div 100
UpdateClamp == Q \div 100
WeightClamp == 2 * Q
BiasClamp == Q
\* randomMatrix(nHidden, nVisible, 0.01)
FreshScale == Q \div 100

Uniform(n, x) == [i \in 1..n |-> x]

\* proposedHidden[neuronIdx] = proposedHidden[neuronIdx] > 0.5 ? 0 : 1, for
\* each drawn index in turn; an index drawn twice is flipped back
RECURSIVE ApplyFlips(_, _)
ApplyFlips(hidden, idxs) ==
    IF idxs = <<>> THEN hidden
    ELSE ApplyFlips([hidden EXCEPT
                       ![Head(idxs)] = IF Gt(@, Q \div 2) THEN 0 ELSE Q],
                    Tail(idxs))

\* the index sequences Math.floor(Math.random() * this.nHidden) can give
FlipDraws == [1..Min(MaxFlips, nHidden) -> 1..nHidden]

\* the hidden states a proposal can reach from hidden
ProposedHiddens(hidden) == {ApplyFlips(hidden, idxs) : idxs \in FlipDraws}

\* !isFinite(currentEnergy) || !isFinite(proposedEnergy), negated
EnergiesFinite == IsFinite(currentEnergy) /\ IsFinite(proposedEnergy)

\* a criterion that leaves every finite proposal to the draw
MetropolisOutcomes_drawOnly(diff) ==
    IF IsFinite(diff) THEN {TRUE, FALSE} ELSE {FALSE}

\* shouldAccept: true when energyDiff <= 0, else Math.random() <
\* Math.exp(-energyDiff / temperature), which can fall either way for a
\* finite energyDiff and fails when the exponential is 0 or NaN
MetropolisOutcomes(diff) ==
    IF Le(diff, 0) THEN {TRUE}
    ELSE IF IsFinite(diff) THEN {TRUE, FALSE}
    ELSE {FALSE}

\* Math.max(-0.01, Math.min(0.01, update))
ClampUpdate(x) == Clamp(UpdateClamp, x)

\* Math.max(-1.0, Math.min(1.0, bias))
ClampBias(x) == Clamp(BiasClamp, x)

\* an update that leaves the weight as the sum gives it
ClampWeight_none(x) == x

\* Math.max(-2.0, Math.min(2.0, this.weights[j][i]))
ClampWeight(x) == Clamp(WeightClamp, x)

\* no copy: the same array again
slice_alias(ref) == ref

\* a.slice(): a new array, which is not the array copied
slice(ref) == IF ref = OwnArray THEN OwnArray - 1 ELSE OwnArray

\* the samples after the elements of the array ref were assigned sample
Written(samples, ref, sample) ==
    IF ref \in DOMAIN samples THEN [samples EXCEPT ![ref] = sample]
    ELSE samples

\* the parameter update of an accepted move, from the data sample drawn and
\* the state just accepted
SaUpdated(dataSample, sample, hidden) ==
    LET dataHidden == sampleHidden(dataSample)
        lr == Mul(learningRate, SaRateFactor)
        step1(old, corr) == Add(old, ClampUpdate(Mul(lr, corr)))
    IN [weights |->
          [j \in DOMAIN weights |-> [i \in DOMAIN weights[j] |->
             ClampWeight(step1(weights[j][i],
                               Sub(Mul(dataSample[i], dataHidden[j]),
                                   Mul(sample[i], hidden[j]))))]],
        visibleBias |->
          [i \in DOMAIN visibleBias |->
             ClampBias(step1(visibleBias[i], Sub(dataSample[i], sample[i])))],
        hiddenBias |->
          [j \in DOMAIN hiddenBias |->
             ClampBias(step1(hiddenBias[j], Sub(dataHidden[j], hidden[j])))]]

\* an update block that runs on every accepted move
UpdateDue_always(moves) == TRUE

\* if (acceptedMoves % 10 === 0), after acceptedMoves++
UpdateDue(moves) == moves % UpdateEvery = 0

\* an update that keeps the energy computed before it
EnergyAfterUpdate_stale(new) == proposedEnergy

\* lines 288-290: testEnergy, the energy of the accepted state under the
\* parameters just written
EnergyAfterUpdate(new) ==
    Energy(new.weights, new.hiddenBias, new.visibleBias, proposedSample,
           proposedHidden)

\* a step loop that starts over without the cooling
NextStep_noCooling ==
    IF step + 1 < StepsPerTemperature
      THEN /\ step' = step + 1
           /\ kpc' = "saPropose"
           /\ UNCHANGED temperature
      ELSE /\ step' = 0
           /\ kpc' = "saPropose"
           /\ UNCHANGED temperature

\* a step loop that cools after every proposal
NextStep_coolEachStep ==
    /\ step' = IF step + 1 < StepsPerTemperature THEN step + 1 ELSE 0
    /\ temperature' = Mul(temperature, CoolingRate)
    /\ kpc' = IF Gt(Mul(temperature, CoolingRate), FinalTemperature)
                THEN "saPropose" ELSE "saDone"

\* the end of one pass of the step loop: step++, and after the last step of
\* a temperature the cooling and the test of the while loop
NextStep ==
    IF step + 1 < StepsPerTemperature
      THEN /\ step' = step + 1
           /\ kpc' = "saPropose"
           /\ UNCHANGED temperature
      ELSE /\ step' = 0
           /\ temperature' = Mul(temperature, CoolingRate)
           /\ kpc' = IF Gt(Mul(temperature, CoolingRate), FinalTemperature)
                       THEN "saPropose" ELSE "saDone"

\* lines 137-140: a random data sample, its binary hidden sample, its energy
SaBegin ==
    /\ kpc = "saBegin"
    /\ \E d \in DOMAIN data :
         \E h \in BinaryVectors(sampleHidden(data[d])) :
            /\ currentSample' = data[d]
            /\ currentSampleRef' = slice(d)
            /\ currentHidden' = h
            /\ currentHiddenRef' = OwnArray
            /\ currentEnergy' = computeEnergy(data[d], h)
    /\ temperature' = InitialTemperature
    /\ acceptedMoves' = 0
    /\ paramUpdates' = 0
    /\ step' = 0
    /\ kpc' = "saPropose"
    /\ UNCHANGED <<hookVars, fitVars, modelVars, data, fromFresh,
                   proposedSample, proposedHidden, proposedEnergy, energyDiff,
                   lastOutcome, stepsLeft, proposedSampleRef,
                   proposedHiddenRef, cdVars, eqVars, callVars, shuffleVars,
                   storeVars>>

\* lines 150-172: the proposal: hidden units flipped, the visible layer
\* sampled anew from them, the energy of the pair
SaPropose ==
    /\ kpc = "saPropose" /\ stepsLeft > 0
    /\ \E hidden \in ProposedHiddens(currentHidden) :
         \E sample \in BinaryVectors(MeanVisible(weights, visibleBias, hidden)) :
            /\ proposedHidden' = hidden
            /\ proposedHiddenRef' = slice(currentHiddenRef)
            /\ currentHidden' = IF proposedHiddenRef' = currentHiddenRef
                                  THEN hidden ELSE currentHidden
            /\ proposedSample' = sample
            /\ proposedSampleRef' = slice(currentSampleRef)
            /\ currentSample' = IF proposedSampleRef' = currentSampleRef
                                  THEN sample ELSE currentSample
            /\ data' = Written(data, proposedSampleRef', sample)
            /\ proposedEnergy' = computeEnergy(sample, hidden)
            /\ energyDiff' = Sub(computeEnergy(sample, hidden), currentEnergy)
    /\ stepsLeft' = stepsLeft - 1
    /\ kpc' = "saDecide"
    /\ UNCHANGED <<hookVars, fitVars, modelVars, fromFresh, temperature,
                   step, acceptedMoves, currentEnergy, lastOutcome,
                   currentSampleRef, currentHiddenRef, paramUpdates, cdVars,
                   eqVars, callVars, shuffleVars, storeVars>>

\* a skip that still counts the move
SaSkip_counting ==
    /\ kpc = "saDecide"
    /\ ~EnergiesFinite
    /\ lastOutcome' = "skipped"
    /\ acceptedMoves' = acceptedMoves + 1
    /\ NextStep
    /\ UNCHANGED <<hookVars, fitVars, modelVars, data, fromFresh,
                   currentSample, currentHidden, currentEnergy,
                   proposedSample, proposedHidden, proposedEnergy, energyDiff,
                   stepsLeft, currentSampleRef, proposedSampleRef,
                   currentHiddenRef, proposedHiddenRef, paramUpdates, cdVars,
                   eqVars, callVars, shuffleVars, storeVars>>

\* lines 175-178: an energy is not finite: continue
SaSkip ==
    /\ kpc = "saDecide"
    /\ ~EnergiesFinite
    /\ lastOutcome' = "skipped"
    /\ NextStep
    /\ UNCHANGED <<hookVars, fitVars, modelVars, data, fromFresh,
                   acceptedMoves, currentSample, currentHidden, currentEnergy,
                   proposedSample, proposedHidden, proposedEnergy, energyDiff,
                   stepsLeft, currentSampleRef, proposedSampleRef,
                   currentHiddenRef, proposedHiddenRef, paramUpdates, cdVars,
                   eqVars, callVars, shuffleVars, storeVars>>

\* lines 186-196, shouldAccept false: the state stays
SaReject ==
    /\ kpc = "saDecide"
    /\ EnergiesFinite
    /\ FALSE \in MetropolisOutcomes(energyDiff)
    /\ lastOutcome' = "rejected"
    /\ NextStep
    /\ UNCHANGED <<hookVars, fitVars, modelVars, data, fromFresh,
                   acceptedMoves, currentSample, currentHidden, currentEnergy,
                   proposedSample, proposedHidden, proposedEnergy, energyDiff,
                   stepsLeft, currentSampleRef, proposedSampleRef,
                   currentHiddenRef, proposedHiddenRef, paramUpdates, cdVars,
                   eqVars, callVars, shuffleVars, storeVars>>

\* lines 198-291, shouldAccept true: the proposal becomes the state; every
\* UpdateEvery-th accepted move updates the parameters from a random data
\* sample and recomputes the energy
SaAccept ==
    /\ kpc = "saDecide"
    /\ EnergiesFinite
    /\ TRUE \in MetropolisOutcomes(energyDiff)
    /\ acceptedMoves' = acceptedMoves + 1
    /\ currentSample' = proposedSample
    /\ currentSampleRef' = proposedSampleRef
    /\ currentHidden' = proposedHidden
    /\ currentHiddenRef' = proposedHiddenRef
    /\ IF UpdateDue(acceptedMoves + 1)
         THEN \E dataIdx \in DOMAIN data :
                LET new == SaUpdated(data[dataIdx], proposedSample,
                                     proposedHidden) IN
                /\ weights' = new.weights
                /\ hiddenBias' = new.hiddenBias
                /\ visibleBias' = new.visibleBias
                /\ currentEnergy' = EnergyAfterUpdate(new)
                /\ paramUpdates' = paramUpdates + 1
                /\ lastOutcome' = "updated"
         ELSE /\ currentEnergy' = proposedEnergy
              /\ lastOutcome' = "accepted"
              /\ UNCHANGED <<weights, hiddenBias, visibleBias, paramUpdates>>
    /\ NextStep
    /\ UNCHANGED <<hookVars, fitVars, nVisible, nHidden, learningRate,
                   modelMethod, data,
                   fromFresh, proposedSample, proposedHidden, proposedEnergy,
                   energyDiff, stepsLeft, proposedSampleRef,
                   proposedHiddenRef, cdVars, eqVars, callVars, shuffleVars,
                   storeVars>>

\* ------------------------------------------------------------------------
\* simulatedAnnealing runs on small models.  The model starts at the call,
\* or at the top of a proposal step somewhere in a run: the parameters are
\* those of a fresh model, or ones earlier updates have brought to the
\* clamps, or ones a snapshot or a caller holding getWeights() has made
\* non-finite.
\* ------------------------------------------------------------------------
\* the hook's learning rate 0.06, and one large enough for the update clamp
HookRate == (6 * Q) \div 100
LargeRate == 100 * Q

\* <<weight, bias, descends from a fresh model, learning rate>>
SaModels ==
    { <<FreshScale, 0, TRUE, HookRate>>, <<-FreshScale, 0, TRUE, HookRate>>,
      <<WeightClamp, BiasClamp, TRUE, HookRate>>,
      <<WeightClamp, BiasClamp, TRUE, LargeRate>>,
      <<-WeightClamp, -BiasClamp, TRUE, HookRate>>,
      <<-WeightClamp, -BiasClamp, TRUE, LargeRate>>,
      <<NaN, 0, FALSE, HookRate>>, <<PosInf, 0, FALSE, HookRate>> }

\* datasets of samples of reals in [0, 1]
DataSets ==
    { <<Uniform(MaxVisible, 0)>>, <<Uniform(MaxVisible, Q)>>,
      <<Uniform(MaxVisible, 0), Uniform(MaxVisible, Q \div 2)>> }

\* a temperature of the last level: one more cooling ends the run
LastTemperature == FinalTemperature + 5

\* <<temperature, step, acceptedMoves>> at the top of a proposal step
LoopHeads ==
    { <<InitialTemperature, 0, 0>>,
      <<InitialTemperature, StepsPerTemperature - 1, UpdateEvery - 1>>,
      <<LastTemperature, StepsPerTemperature - MaxProposals, 0>> }

\* the hook and fit at rest, for the specifications of the kernels
InitPartOneIdle ==
    /\ InitHook
    /\ newRBM = [r \in Runs |-> 0]
    /\ cur = 0
    /\ stored = FALSE
    /\ InitFit

InitSA ==
    /\ InitPartOneIdle
    /\ InitCdIdle /\ InitEqIdle /\ InitCallIdle /\ InitShuffleIdle /\ InitStoreIdle
    /\ nVisible = MaxVisible /\ nHidden = MaxHidden
    /\ modelMethod = SA
    /\ \E m \in SaModels :
         /\ learningRate = m[4]
         /\ weights = Uniform(MaxHidden, Uniform(MaxVisible, m[1]))
         /\ hiddenBias = Uniform(MaxHidden, m[2])
         /\ visibleBias = Uniform(MaxVisible, m[2])
         /\ fromFresh = m[3]
    /\ data \in DataSets
    /\ stepsLeft = MaxProposals
    /\ currentSampleRef = OwnArray /\ proposedSampleRef = OwnArray
    /\ currentHiddenRef = OwnArray /\ proposedHiddenRef = OwnArray
    /\ proposedSample = Uniform(MaxVisible, 0)
    /\ proposedHidden = Uniform(MaxHidden, 0)
    /\ proposedEnergy = 0
    /\ energyDiff = 0
    /\ lastOutcome = "none"
    /\ \/ /\ kpc = "saBegin"
          /\ temperature = InitialTemperature /\ step = 0
          /\ acceptedMoves = 0
          /\ currentSample = Uniform(MaxVisible, 0)
          /\ currentHidden = Uniform(MaxHidden, 0)
          /\ currentEnergy = 0
       \/ /\ kpc = "saPropose"
          /\ \E head \in LoopHeads :
                /\ temperature = head[1]
                /\ step = head[2]
                /\ acceptedMoves = head[3]
          /\ \E bit \in {0, Q} :
                /\ currentSample = Uniform(MaxVisible, bit)
                /\ currentHidden = Uniform(MaxHidden, bit)
          /\ currentEnergy = computeEnergy(currentSample, currentHidden)
    /\ paramUpdates = acceptedMoves \div UpdateEvery

NextSA ==
    \/ SaBegin
    \/ SaPropose
    \/ SaSkip
    \/ SaReject
    \/ SaAccept

SpecSA == InitSA /\ [][NextSA]_vars

\* ------------------------------------------------------------------------
\* The end of a run: the last proposals of the last temperature, on a model
\* of one hidden unit (so that every proposal flips it), from an
\* accepted-move count a little short of a multiple of UpdateEvery.
\* ------------------------------------------------------------------------
\* <<weight, bias, learning rate>>
EndModels ==
    { <<FreshScale, 0, HookRate>>, <<WeightClamp, BiasClamp, LargeRate>>,
      <<-WeightClamp, -BiasClamp, LargeRate>>, <<NaN, 0, HookRate>> }

InitSAEnd ==
    /\ InitPartOneIdle
    /\ InitCdIdle /\ InitEqIdle /\ InitCallIdle /\ InitShuffleIdle /\ InitStoreIdle
    /\ nVisible = MaxVisible /\ nHidden = 1
    /\ modelMethod = SA
    /\ \E m \in EndModels :
         /\ learningRate = m[3]
         /\ weights = Uniform(1, Uniform(MaxVisible, m[1]))
         /\ hiddenBias = Uniform(1, m[2])
         /\ visibleBias = Uniform(MaxVisible, m[2])
         /\ fromFresh = IsFinite(m[1])
    /\ data \in DataSets
    /\ stepsLeft = MaxLastProposals
    /\ currentSampleRef = OwnArray /\ proposedSampleRef = OwnArray
    /\ currentHiddenRef = OwnArray /\ proposedHiddenRef = OwnArray
    /\ proposedSample = Uniform(MaxVisible, 0)
    /\ proposedHidden = Uniform(1, 0)
    /\ proposedEnergy = 0
    /\ energyDiff = 0
    /\ lastOutcome = "none"
    /\ kpc = "saPropose"
    /\ temperature = LastTemperature
    /\ step = StepsPerTemperature - MaxLastProposals
    /\ acceptedMoves \in {UpdateEvery - 1, 2 * UpdateEvery - MaxLastProposals}
    /\ paramUpdates = acceptedMoves \div UpdateEvery
    /\ \E bit \in {0, Q} :
          /\ currentSample = Uniform(MaxVisible, bit)
          /\ currentHidden = Uniform(1, bit)
    /\ currentEnergy = computeEnergy(currentSample, currentHidden)

NextSAEnd ==
    \/ SaPropose
    \/ SaSkip
    \/ SaReject
    \/ SaAccept

SpecSAEnd == InitSAEnd /\ [][NextSAEnd]_vars

\* temperature *= coolingRate
Cool(t) == Mul(t, CoolingRate)

\* the n temperatures t, Cool(t), Cool(Cool(t)), ...
RECURSIVE Schedule(_, _)
Schedule(t, n) ==
    IF n = 1 THEN <<t>>
    ELSE LET a == Schedule(t, n \div 2)
         IN a \o Schedule(Cool(a[Len(a)]), n - n \div 2)

\* the temperatures of a run, from the initial one to well below the final
CoolingSchedule == Schedule(InitialTemperature, 2^9)

\* the passes of while (temperature > finalTemperature) of a whole run
Levels ==
    Cardinality({k \in DOMAIN CoolingSchedule :
                   Gt(CoolingSchedule[k], FinalTemperature)})

\* the pass in which a temperature of the schedule is used
LevelOf ==
    [t \in {CoolingSchedule[k] : k \in 1..Levels} |->
        CHOOSE k \in 1..Levels : CoolingSchedule[k] = t]

\* temperature levels still to run from temperature t: the passes of
\* while (temperature > finalTemperature) with temperature *= coolingRate
RECURSIVE LevelsToGo(_)
LevelsToGo(t) ==
    IF ~Gt(t, FinalTemperature) THEN 0
    ELSE IF t \in DOMAIN LevelOf THEN Levels - LevelOf[t] + 1
    ELSE 1 + LevelsToGo(Cool(t))

\* proposals the run has still to decide, the one under way included
ProposalsToGo ==
    IF kpc = "saDone" THEN 0
    ELSE LevelsToGo(temperature) * StepsPerTemperature - step

\* ------------------------------------------------------------------------
\* contrastiveDivergence(batch), the CD-1 update; data is the batch
\* ------------------------------------------------------------------------
\* the three passes made for one sample of the batch
HiddenProb(sample) == sampleHidden(sample)

VisibleRecon(sample) == sampleVisible(HiddenProb(sample))

HiddenRecon(sample) == sampleHidden(VisibleRecon(sample))

\* the positive phase alone
WeightGradTerm_positiveOnly(sample, i, j) ==
    Mul(HiddenProb(sample)[i], sample[j])

\* hiddenProb[i] * sample[j] - hiddenRecon[i] * visibleRecon[j]
WeightGradTerm(sample, i, j) ==
    Sub(Mul(HiddenProb(sample)[i], sample[j]),
        Mul(HiddenRecon(sample)[i], VisibleRecon(sample)[j]))

\* hiddenProb[i] - hiddenRecon[i]
HiddenGradTerm(sample, i) ==
    Sub(HiddenProb(sample)[i], HiddenRecon(sample)[i])

\* sample[i] - visibleRecon[i]
VisibleGradTerm(sample, i) ==
    Sub(sample[i], VisibleRecon(sample)[i])

\* the gradients after the loop over the batch: every sample adds its term
\* divided by batchSize
CdWeightGrad(batch) ==
    [i \in 1..nHidden |-> [j \in 1..nVisible |->
        SumSeq([k \in DOMAIN batch |->
                  DivCount(WeightGradTerm(batch[k], i, j), Len(batch))])]]

CdHiddenGrad(batch) ==
    [i \in 1..nHidden |->
        SumSeq([k \in DOMAIN batch |->
                  DivCount(HiddenGradTerm(batch[k], i), Len(batch))])]

CdVisibleGrad(batch) ==
    [i \in 1..nVisible |->
        SumSeq([k \in DOMAIN batch |->
                  DivCount(VisibleGradTerm(batch[k], i), Len(batch))])]

\* one call: the gradients of the batch, then parameter += learningRate *
\* gradient, with no clamp
ContrastiveDivergence ==
    /\ kpc = "cdCall"
    /\ weightGrad' = CdWeightGrad(data)
    /\ hiddenGrad' = CdHiddenGrad(data)
    /\ visibleGrad' = CdVisibleGrad(data)
    /\ weights' = [i \in 1..nHidden |-> [j \in 1..nVisible |->
          Add(weights[i][j], Mul(learningRate, weightGrad'[i][j]))]]
    /\ hiddenBias' = [i \in 1..nHidden |->
          Add(hiddenBias[i], Mul(learningRate, hiddenGrad'[i]))]
    /\ visibleBias' = [i \in 1..nVisible |->
          Add(visibleBias[i], Mul(learningRate, visibleGrad'[i]))]
    /\ kpc' = "cdDone"
    /\ UNCHANGED <<hookVars, fitVars, nVisible, nHidden, learningRate,
                   modelMethod, data, fromFresh, saVars, eqVars, callVars, shuffleVars, storeVars>>

\* ------------------------------------------------------------------------
\* contrastiveDivergence on small models: parameters of moderate size (a
\* fresh model, or weights up to 1 and biases up to 0.5 in size), a positive
\* learning rate, and every batch of 1..MaxBatch samples drawn from the
\* all-zero, the all-one and the all-half sample
\* ------------------------------------------------------------------------
\* <<weight, bias>>
CdModels ==
    {0, FreshScale, -FreshScale, Q, -Q} \X {0, Q \div 2, -(Q \div 2)}

CdSamples ==
    {Uniform(MaxVisible, 0), Uniform(MaxVisible, Q),
     Uniform(MaxVisible, Q \div 2)}

CdBatches ==
    UNION {[1..n -> CdSamples] : n \in 1..MaxBatch}

InitCD ==
    /\ InitPartOneIdle
    /\ InitSaIdle /\ InitCdIdle /\ InitEqIdle /\ InitCallIdle /\ InitShuffleIdle /\ InitStoreIdle
    /\ nVisible = MaxVisible /\ nHidden = MaxHidden
    /\ modelMethod = CD
    /\ learningRate \in {HookRate, Q}
    /\ \E m \in CdModels :
         /\ weights = Uniform(MaxHidden, Uniform(MaxVisible, m[1]))
         /\ hiddenBias = Uniform(MaxHidden, m[2])
         /\ visibleBias = Uniform(MaxVisible, m[2])
    /\ fromFresh = TRUE
    /\ data \in CdBatches
    /\ kpc = "cdCall"

NextCD == ContrastiveDivergence

SpecCD == InitCD /\ [][NextCD]_vars

\* ------------------------------------------------------------------------
\* equilibriumLearning(batch, gibbsSteps, negPhaseSamples); data is the
\* batch.  The chain state v, h of the code is gibbsV, gibbsH.
\* ------------------------------------------------------------------------
\* 1 / n for a count n; 1 / 0 is Infinity
Recip(n) == IF n = 0 THEN PosInf ELSE Q \div n

\* effectiveLearningRate, and the decay factor of the weights
EqRate == Q \div 100
EqDecay == (99 * Q) \div 100

\* new Float32Array(n), zeroMatrix(rows, cols)
ZeroVector(n) == Uniform(n, 0)
zeroMatrix(rows, cols) == Uniform(rows, ZeroVector(cols))

\* the positive phase: sums over the batch, then times scale
PosPhaseOf(batch) ==
    [i \in 1..nHidden |-> [j \in 1..nVisible |->
        Mul(SumSeq([k \in DOMAIN batch |->
                      Mul(sampleHidden(batch[k])[i], batch[k][j])]),
            Recip(Len(batch)))]]

PosHiddenOf(batch) ==
    [i \in 1..nHidden |->
        Mul(SumSeq([k \in DOMAIN batch |-> sampleHidden(batch[k])[i]]),
            Recip(Len(batch)))]

PosVisibleOf(batch) ==
    [j \in 1..nVisible |->
        Mul(SumSeq([k \in DOMAIN batch |-> batch[k][j]]),
            Recip(Len(batch)))]

\* sampleHiddenBinary, sampleVisibleBinary: the vectors they can return
sampleHiddenBinary(visible) == BinaryVectors(sampleHidden(visible))
sampleVisibleBinary(hidden) == BinaryVectors(sampleVisible(hidden))

\* an accumulated sum left as it is
NegScaled_unscaled(x, n) == x

\* x *= negScale, negScale = 1 / negPhaseSamples
NegScaled(x, n) == Mul(x, Recip(n))

\* the rate the comment of line 237 keeps: this.learningRate * 0.1
effectiveLearningRate_scaled(rate) == Mul(rate, Q \div 10)

\* const effectiveLearningRate = 0.01, on a model of learning rate rate
effectiveLearningRate(rate) == EqRate

\* this.weights, this.hiddenBias, this.visibleBias
Parameters == <<weights, hiddenBias, visibleBias>>

\* lines 327-337 on a model of learning rate rate and parameters params =
\* <<weights, hiddenBias, visibleBias>>, from the phases of the call:
\* weights[i][j] += rate' * (pos - neg); weights[i][j] *= 0.99;
\* bias += rate' * (pos - neg)
EqUpdated(rate, params, neg, negH, negV) ==
    <<[i \in 1..nHidden |-> [j \in 1..nVisible |->
          Mul(Add(params[1][i][j],
                  Mul(effectiveLearningRate(rate),
                      Sub(posPhase[i][j], neg[i][j]))),
              EqDecay)]],
      [i \in 1..nHidden |->
          Add(params[2][i],
              Mul(effectiveLearningRate(rate), Sub(posHidden[i], negH[i])))],
      [j \in 1..nVisible |->
          Add(params[3][j],
              Mul(effectiveLearningRate(rate),
                  Sub(posVisible[j], negV[j])))]>>

\* the call up to the burn-in loop: positive phase, zeroed negative phase,
\* v = batch[0].slice(), h sampled from v
EqBegin ==
    /\ kpc = "eqCall"
    /\ data # <<>>
    /\ posPhase' = PosPhaseOf(data)
    /\ posHidden' = PosHiddenOf(data)
    /\ posVisible' = PosVisibleOf(data)
    /\ negPhase' = zeroMatrix(nHidden, nVisible)
    /\ negHidden' = ZeroVector(nHidden)
    /\ negVisible' = ZeroVector(nVisible)
    /\ gibbsV' = data[1]
    /\ gibbsH' \in sampleHiddenBinary(data[1])
    /\ gibbsI' = 0 /\ negS' = 0
    /\ kpc' = "eqChain"
    /\ UNCHANGED <<hookVars, fitVars, modelVars, data, fromFresh, saVars,
                   cdVars, gibbsSteps, negPhaseSamples, twinRate, twinParams,
                   callVars, shuffleVars, storeVars>>

\* an empty batch: batch[0] is undefined and batch[0].slice() throws
EqThrows ==
    /\ kpc = "eqCall"
    /\ data = <<>>
    /\ kpc' = "eqThrew"
    /\ UNCHANGED <<hookVars, fitVars, modelVars, data, fromFresh, saVars,
                   cdVars, eqVars, callVars, shuffleVars, storeVars>>

\* one pass of the burn-in loop
EqBurnStep ==
    /\ kpc = "eqChain"
    /\ gibbsI < gibbsSteps
    /\ gibbsH' \in sampleHiddenBinary(gibbsV)
    /\ gibbsV' \in sampleVisibleBinary(gibbsH')
    /\ gibbsI' = gibbsI + 1
    /\ UNCHANGED <<hookVars, fitVars, modelVars, data, kpc, fromFresh,
                   saVars, cdVars, gibbsSteps, negPhaseSamples, negS,
                   posPhase, posHidden, posVisible, negPhase, negHidden,
                   negVisible, twinRate, twinParams, callVars, shuffleVars,
                   storeVars>>

\* one pass of the sampling loop (gibbsSampleWithEnergy, called between the
\* loops, works on a copy of v and only feeds the log)
EqSample ==
    /\ kpc = "eqChain"
    /\ gibbsI >= gibbsSteps
    /\ negS < negPhaseSamples
    /\ gibbsH' \in sampleHiddenBinary(gibbsV)
    /\ gibbsV' \in sampleVisibleBinary(gibbsH')
    /\ negPhase' = [i \in 1..nHidden |-> [j \in 1..nVisible |->
          Add(negPhase[i][j], Mul(gibbsH'[i], gibbsV'[j]))]]
    /\ negHidden' = [i \in 1..nHidden |-> Add(negHidden[i], gibbsH'[i])]
    /\ negVisible' = [j \in 1..nVisible |-> Add(negVisible[j], gibbsV'[j])]
    /\ negS' = negS + 1
    /\ UNCHANGED <<hookVars, fitVars, modelVars, data, kpc, fromFresh,
                   saVars, cdVars, gibbsSteps, negPhaseSamples, gibbsI,
                   posPhase, posHidden, posVisible, twinRate, twinParams,
                   callVars, shuffleVars, storeVars>>

\* after the sampling loop: the negative phase is averaged, then
\* weights[i][j] += rate * (pos - neg); weights[i][j] *= 0.99, and the
\* biases += rate * (pos - neg)
EqUpdate ==
    /\ kpc = "eqChain"
    /\ gibbsI >= gibbsSteps
    /\ negS >= negPhaseSamples
    /\ negPhase' = [i \in 1..nHidden |-> [j \in 1..nVisible |->
          NegScaled(negPhase[i][j], negPhaseSamples)]]
    /\ negHidden' = [i \in 1..nHidden |->
          NegScaled(negHidden[i], negPhaseSamples)]
    /\ negVisible' = [j \in 1..nVisible |->
          NegScaled(negVisible[j], negPhaseSamples)]
    /\ LET new == EqUpdated(learningRate, Parameters, negPhase',
                            negHidden', negVisible')
       IN /\ weights' = new[1]
          /\ hiddenBias' = new[2]
          /\ visibleBias' = new[3]
    /\ twinParams' = EqUpdated(twinRate, twinParams, negPhase', negHidden',
                               negVisible')
    /\ kpc' = "eqDone"
    /\ UNCHANGED <<hookVars, fitVars, nVisible, nHidden, learningRate,
                   modelMethod, data, fromFresh, saVars, cdVars, gibbsSteps,
                   negPhaseSamples, gibbsI, negS, gibbsV, gibbsH, posPhase,
                   posHidden, posVisible, twinRate, callVars, shuffleVars,
                   storeVars>>

\* ------------------------------------------------------------------------
\* equilibriumLearning on small models: all-zero parameters (every draw can
\* go either way), large weights (draws follow the other layer), parameters
\* that are NaN; the empty batch and batches of the all-zero and the
\* all-one sample; 0..MaxGibbsSteps burn-in steps and 1..MaxNegSamples
\* samples in place of the 3000 and 500 of the code; one hidden unit
\* ------------------------------------------------------------------------
\* <<weight, bias>>
EqModels == {<<0, 0>>, <<8 * Q, -(4 * Q)>>, <<NaN, NaN>>}

\* the hook's learning rate 0.06, and 0.1, for which learningRate * 0.1 is
\* the 0.01 of the code
EqLearningRates == {HookRate, Q \div 10}

EqBatches ==
    {<<>>, <<Uniform(MaxVisible, 0)>>,
     <<Uniform(MaxVisible, Q), Uniform(MaxVisible, 0)>>}

InitEQ ==
    /\ InitPartOneIdle
    /\ InitSaIdle /\ InitCdIdle /\ InitStoreIdle
    /\ nVisible = MaxVisible /\ nHidden = 1
    /\ modelMethod = EQ
    /\ learningRate \in EqLearningRates
    /\ twinRate \in EqLearningRates \ {learningRate}
    /\ \E m \in EqModels :
         /\ weights = Uniform(1, Uniform(MaxVisible, m[1]))
         /\ hiddenBias = Uniform(1, m[2])
         /\ visibleBias = Uniform(MaxVisible, m[2])
    /\ twinParams = Parameters
    /\ fromFresh = FALSE
    /\ data \in EqBatches
    /\ gibbsSteps \in 0..MaxGibbsSteps
    /\ negPhaseSamples \in 1..MaxNegSamples
    /\ gibbsI = 0 /\ negS = 0
    /\ gibbsV = <<>> /\ gibbsH = <<>>
    /\ posPhase = <<>> /\ posHidden = <<>> /\ posVisible = <<>>
    /\ negPhase = <<>> /\ negHidden = <<>> /\ negVisible = <<>>
    /\ InitCallIdle /\ InitShuffleIdle
    /\ kpc = "eqCall"

NextEQ ==
    \/ EqBegin
    \/ EqThrows
    \/ EqBurnStep
    \/ EqSample
    \/ EqUpdate

SpecEQ == InitEQ /\ [][NextEQ]_vars

\* ------------------------------------------------------------------------
\* The three trainers side by side: a call of simulatedAnnealing, of
\* contrastiveDivergence or of equilibriumLearning on the samples fit hands
\* it, which are the arrays of the caller (fit copies the list with
\* data.slice(0, n) and fills batches with data[idx], never the samples)
\* ------------------------------------------------------------------------
InitTrainers == InitSA \/ InitCD \/ InitEQ

NextTrainers == NextSA \/ NextCD \/ NextEQ

SpecTrainers == InitTrainers /\ [][NextTrainers]_vars

\* ------------------------------------------------------------------------
\* The branch fit takes on this.trainingMethod, in each of the two classes
\* that look at it, up to its first trainer call.  The batch (for
\* simulatedAnnealing the reduced data) is one of DispatchBatches;
\* equilibriumLearning gets MaxGibbsSteps and MaxNegSamples in place of its
\* defaults.
\* ------------------------------------------------------------------------
DispatchBatches ==
    {<<Uniform(MaxVisible, 0)>>,
     <<Uniform(MaxVisible, Q), Uniform(MaxVisible, 0)>>}

\* the class with simulatedAnnealing:
\* if (this.trainingMethod === 'simulated-annealing')
FitAnnealingBranch ==
    /\ kpc = "fitCall"
    /\ modelMethod = SA
    /\ data' \in DispatchBatches
    /\ stepsLeft' = MaxProposals
    /\ kpc' = "saBegin"
    /\ UNCHANGED <<hookVars, fitVars, modelVars, fromFresh, temperature, step,
                   acceptedMoves, currentSample, currentHidden, currentEnergy,
                   proposedSample, proposedHidden, proposedEnergy, energyDiff,
                   lastOutcome, currentSampleRef, proposedSampleRef,
                   currentHiddenRef, proposedHiddenRef, paramUpdates, cdVars,
                   eqVars, callVars, shuffleVars, storeVars>>

\* the class with simulatedAnnealing: else
FitAnnealingElse ==
    /\ kpc = "fitCall"
    /\ modelMethod # SA
    /\ data' \in DispatchBatches
    /\ kpc' = "cdCall"
    /\ UNCHANGED <<hookVars, fitVars, modelVars, fromFresh, saVars, cdVars,
                   eqVars, callVars, shuffleVars, storeVars>>

\* the class with equilibriumLearning:
\* if (this.trainingMethod === 'equilibrium'); the batch is empty when
\* batchSize is 0
FitEquilibriumBranch ==
    /\ kpc = "fitCall"
    /\ modelMethod = EQ
    /\ data' \in DispatchBatches \cup {<<>>}
    /\ gibbsSteps' = MaxGibbsSteps
    /\ negPhaseSamples' = MaxNegSamples
    /\ twinRate' = Q \div 10
    /\ twinParams' = Parameters
    /\ kpc' = "eqCall"
    /\ UNCHANGED <<hookVars, fitVars, modelVars, fromFresh, saVars, cdVars,
                   gibbsI, negS, gibbsV, gibbsH, posPhase, posHidden,
                   posVisible, negPhase, negHidden, negVisible, callVars, shuffleVars, storeVars>>

\* the class with equilibriumLearning: else
FitEquilibriumElse ==
    /\ kpc = "fitCall"
    /\ modelMethod # EQ
    /\ data' \in DispatchBatches
    /\ kpc' = "cdCall"
    /\ UNCHANGED <<hookVars, fitVars, modelVars, fromFresh, saVars, cdVars,
                   eqVars, callVars, shuffleVars, storeVars>>

\* <<weight, bias, descends from a fresh model>>
DispatchModels ==
    {<<0, 0, TRUE>>, <<FreshScale, 0, TRUE>>, <<-Q, Q \div 2, TRUE>>,
     <<NaN, 0, FALSE>>}

\* a model with one hidden unit and any of the three tags, at the call of fit
InitDispatch ==
    /\ InitPartOneIdle
    /\ InitSaIdle /\ InitCdIdle /\ InitEqIdle /\ InitCallIdle /\ InitShuffleIdle /\ InitStoreIdle
    /\ nVisible = MaxVisible /\ nHidden = 1
    /\ modelMethod \in Methods
    /\ learningRate = HookRate
    /\ \E m \in DispatchModels :
         /\ weights = Uniform(1, Uniform(MaxVisible, m[1]))
         /\ hiddenBias = Uniform(1, m[2])
         /\ visibleBias = Uniform(MaxVisible, m[2])
         /\ fromFresh = m[3]
    /\ data = <<>>
    /\ kpc = "fitCall"

NextDispatch ==
    \/ FitAnnealingBranch
    \/ FitAnnealingElse
    \/ FitEquilibriumBranch
    \/ FitEquilibriumElse
    \/ NextTrainers

SpecDispatch == InitDispatch /\ [][NextDispatch]_vars

\* ------------------------------------------------------------------------
\* Single calls of computeEnergy and of reconstruct.  computeEnergy runs on
\* models of the size of the energy test (4 visible, 3 hidden units): the
\* model of that test with its other weights at 0, and models with one
\* value throughout, on every binary visible and hidden vector.  reconstruct
\* runs on models of MaxVisible by MaxHidden units, the all-zero one among
\* them, on every sample with components 0, 0.5 or 1.
\* ------------------------------------------------------------------------
ExampleVisible == 4
ExampleHidden == 3

ExampleWeights ==
    <<<<Q \div 2, -((3 * Q) \div 10), 0, 0>>, <<0, 0, 0, 0>>, <<0, 0, 0, 0>>>>
ExampleHiddenBias == <<Q \div 5, 0, 0>>
ExampleVisibleBias == <<-(Q \div 10), (2 * Q) \div 5, 0, 0>>
ExampleVisibleVector == <<Q, 0, Q, 0>>
ExampleHiddenVector == <<Q, 0, Q>>

\* <<weights, hiddenBias, visibleBias>>
EnergyModels ==
    {<<ExampleWeights, ExampleHiddenBias, ExampleVisibleBias>>}
    \cup {<<Uniform(ExampleHidden, Uniform(ExampleVisible, m[1])),
            Uniform(ExampleHidden, m[2]), Uniform(ExampleVisible, m[3])>> :
          m \in {<<Q, Q \div 2, -Q>>, <<-(Q \div 4), Q, Q \div 2>>,
                 <<PosInf, 0, 0>>}}

\* <<weight, bias>>
ReconstructModels == {<<0, 0>>, <<FreshScale, 0>>, <<-Q, Q \div 2>>}

\* const energy = rbm.computeEnergy(visible, hidden)
ComputeEnergy ==
    /\ kpc = "energyCall"
    /\ returned' = [NotReturned EXCEPT
                      !.kind = "energy",
                      !.energy = computeEnergy(callVisible, callHidden)]
    /\ kpc' = "energyDone"
    /\ UNCHANGED <<hookVars, fitVars, modelVars, data, fromFresh, saVars,
                   cdVars, eqVars, callVisible, callHidden, shuffleVars, storeVars>>

\* rbm.reconstruct(sample)
Reconstruct ==
    /\ kpc = "reconstructCall"
    /\ returned' = reconstruct(callVisible)
    /\ kpc' = "reconstructDone"
    /\ UNCHANGED <<hookVars, fitVars, modelVars, data, fromFresh, saVars,
                   cdVars, eqVars, callVisible, callHidden, shuffleVars, storeVars>>

InitCalls ==
    /\ InitPartOneIdle
    /\ InitSaIdle /\ InitCdIdle /\ InitEqIdle /\ InitStoreIdle
    /\ modelMethod = CD
    /\ learningRate = HookRate
    /\ fromFresh = FALSE
    /\ data = <<>>
    /\ InitShuffleIdle
    /\ returned = NotReturned
    /\ \/ /\ kpc = "energyCall"
          /\ nVisible = ExampleVisible /\ nHidden = ExampleHidden
          /\ \E m \in EnergyModels :
                /\ weights = m[1]
                /\ hiddenBias = m[2]
                /\ visibleBias = m[3]
          /\ callVisible \in [1..ExampleVisible -> {0, Q}]
          /\ callHidden \in [1..ExampleHidden -> {0, Q}]
       \/ /\ kpc = "reconstructCall"
          /\ nVisible = MaxVisible /\ nHidden = MaxHidden
          /\ \E m \in ReconstructModels :
                /\ weights = Uniform(MaxHidden, Uniform(MaxVisible, m[1]))
                /\ hiddenBias = Uniform(MaxHidden, m[2])
                /\ visibleBias = Uniform(MaxVisible, m[2])
          /\ callVisible \in [1..MaxVisible -> {0, Q \div 2, Q}]
          /\ callHidden = <<>>

NextCalls ==
    \/ ComputeEnergy
    \/ Reconstruct

SpecCalls == InitCalls /\ [][NextCalls]_vars

\* ------------------------------------------------------------------------
\* The batches of fit, index by index: the epoch loop and the batch loop of
\* the contrastive-divergence and the equilibrium branch of one fit
\* invocation (run 1), with the shuffled index array and the idx values each
\* batch reads.  The awaits of the loops are left out: nothing else touches
\* the locals of the invocation.
\* ------------------------------------------------------------------------
\* the value of indices[p] for p past the end, and of data[undefined]
Undefined == -1

\* indices[p], p counted from 0
IndexAt(ix, p) == IF p < Len(ix) THEN ix[p + 1] ELSE Undefined

\* [indices[i], indices[j]] = [indices[j], indices[i]], i and j from 0
Swap(ix, i, j) == [ix EXCEPT ![i + 1] = ix[j + 1], ![j + 1] = ix[i + 1]]

\* the arrays for (i = ...; i > 0; i--) can leave from i on, j being any of
\* 0..i at every pass
RECURSIVE ShuffleFrom(_, _)
ShuffleFrom(ix, i) ==
    IF i <= 0 THEN {ix}
    ELSE UNION {ShuffleFrom(Swap(ix, i, j), i - 1) : j \in 0..i}

\* getShuffledIndices(length), and the same loop inlined in the
\* contrastive-divergence branch
getShuffledIndices(length) ==
    ShuffleFrom([k \in 1..length |-> k - 1], length - 1)

\* the idx values the inner loop reads for batch b
BatchRead(ix, b) ==
    [i \in 1..RealBatchSize(1) |-> IndexAt(ix, b * RealBatchSize(1) + i - 1)]

\* the top of the epoch loop, an epoch to run: indices are shuffled
EpochShuffle ==
    /\ fpc[1] = "epochTop"
    /\ epoch[1] < TotalEpochs(1)
    /\ indices' \in getShuffledIndices(ReducedN(1))
    /\ batchIdx' = [batchIdx EXCEPT ![1] = 0]
    /\ batchIndices' = <<>>
    /\ usedIndices' = <<>>
    /\ fpc' = [fpc EXCEPT ![1] = "batchTop"]
    /\ UNCHANGED <<hookVars, fMethod, fN, fBatch, fEpochsArg, epoch, events,
                   updates, fitsOn, modelVars, data, kpc, fromFresh, saVars,
                   cdVars, eqVars, callVars, storeVars>>

\* the top of the epoch loop, no epoch left
EpochsDone ==
    /\ fpc[1] = "epochTop"
    /\ epoch[1] >= TotalEpochs(1)
    /\ fpc' = [fpc EXCEPT ![1] = "done"]
    /\ UNCHANGED <<hookVars, fMethod, fN, fBatch, fEpochsArg, epoch, batchIdx,
                   events, updates, fitsOn, kernelVars>>

\* one pass of the batch loop: the batch is filled with data[idx] and the
\* trainer runs on it
FormBatch ==
    /\ fpc[1] = "batchTop"
    /\ batchIdx[1] < NBatches(1)
    /\ Undefined \notin {BatchRead(indices, batchIdx[1])[i] :
                           i \in 1..RealBatchSize(1)}
    /\ batchIndices' = BatchRead(indices, batchIdx[1])
    /\ usedIndices' = usedIndices \o batchIndices'
    /\ batchIdx' = [batchIdx EXCEPT ![1] = @ + 1]
    /\ UNCHANGED <<hookVars, fMethod, fN, fBatch, fEpochsArg, fpc, epoch,
                   events, updates, fitsOn, modelVars, data, kpc, fromFresh,
                   saVars, cdVars, eqVars, callVars, indices, storeVars>>

\* one pass of the batch loop that reads past the end of indices: idx is
\* undefined, data[idx] is undefined, and the trainer throws a TypeError
\* when it reads a component of that sample
FormBatchUndefined ==
    /\ fpc[1] = "batchTop"
    /\ batchIdx[1] < NBatches(1)
    /\ Undefined \in {BatchRead(indices, batchIdx[1])[i] :
                        i \in 1..RealBatchSize(1)}
    /\ batchIndices' = BatchRead(indices, batchIdx[1])
    /\ usedIndices' = usedIndices \o batchIndices'
    /\ fpc' = [fpc EXCEPT ![1] = "threw"]
    /\ UNCHANGED <<hookVars, fMethod, fN, fBatch, fEpochsArg, epoch, batchIdx,
                   events, updates, fitsOn, modelVars, data, kpc, fromFresh,
                   saVars, cdVars, eqVars, callVars, indices, storeVars>>

\* the batch loop is over: epoch++
EpochEnd ==
    /\ fpc[1] = "batchTop"
    /\ batchIdx[1] >= NBatches(1)
    /\ epoch' = [epoch EXCEPT ![1] = @ + 1]
    /\ fpc' = [fpc EXCEPT ![1] = "epochTop"]
    /\ UNCHANGED <<hookVars, fMethod, fN, fBatch, fEpochsArg, batchIdx,
                   events, updates, fitsOn, kernelVars>>

\* fit(data, nEpochs) on a model tagged contrastive-divergence or
\* equilibrium, at the top of its epoch loop: 0..MaxN samples, batchSize
\* 1..MaxBatchSize, 1..MaxSmallEpochs epochs
InitBatches ==
    /\ InitHook
    /\ newRBM = [r \in Runs |-> IF r = 1 THEN 1 ELSE 0]
    /\ cur = 1
    /\ stored = FALSE
    /\ \E m \in {CD, EQ}, n \in 0..MaxN, b \in 1..MaxBatchSize,
          e \in 1..MaxSmallEpochs :
         /\ fMethod = [r \in Runs |-> IF r = 1 THEN m ELSE CD]
         /\ fN = [r \in Runs |-> IF r = 1 THEN n ELSE 0]
         /\ fBatch = [r \in Runs |-> IF r = 1 THEN b ELSE 1]
         /\ fEpochsArg = [r \in Runs |-> IF r = 1 THEN e ELSE 0]
    /\ fpc = [r \in Runs |-> IF r = 1 THEN "epochTop" ELSE "idle"]
    /\ epoch = [r \in Runs |-> 0]
    /\ batchIdx = [r \in Runs |-> 0]
    /\ events = [r \in Runs |-> <<>>]
    /\ updates = [r \in Runs |-> 0]
    /\ fitsOn = [i \in Instances |-> IF i = 1 THEN 1 ELSE 0]
    /\ InitKernelIdle

NextBatches ==
    \/ EpochShuffle
    \/ EpochsDone
    \/ FormBatch
    \/ FormBatchUndefined
    \/ EpochEnd

SpecBatches == InitBatches /\ [][NextBatches]_vars

\* ------------------------------------------------------------------------
\* saveToLocalStorage and loadFromLocalStorage.  The 'rbm_weights' entry is
\* held as the JSON value its text stands for: kind "none" when the entry is
\* absent, "corrupt" when its text is not the JSON of an object, "object"
\* otherwise, with the members the loader reads.  hasWeights tells whether
\* the member weights is an array; a bias member that is absent loads as an
\* empty array and is held as the empty sequence.
\* ------------------------------------------------------------------------
\* the JSON literal null
JsonNull == 2^30 + 2

\* JSON.stringify of a number: NaN and the infinities are written as null
JsonNumber(x) == IF IsFinite(x) THEN x ELSE JsonNull

\* the element new Float32Array(array) makes of a JSON element: null is 0
ToFloat32(e) == IF e = JsonNull THEN 0 ELSE e

\* the object saveToLocalStorage serialises (its timestamp is never read)
Snapshot ==
    [kind |-> "object",
     nVisible |-> nVisible,
     nHidden |-> nHidden,
     hasWeights |-> TRUE,
     weights |-> [i \in DOMAIN weights |->
                    [j \in DOMAIN weights[i] |-> JsonNumber(weights[i][j])]],
     hiddenBias |-> [i \in DOMAIN hiddenBias |-> JsonNumber(hiddenBias[i])],
     visibleBias |-> [i \in DOMAIN visibleBias |-> JsonNumber(visibleBias[i])],
     trainingMethod |-> modelMethod]

\* what loadFromLocalStorage returns for the entry it: null when the entry
\* is absent or an exception is thrown (JSON.parse on a corrupt text, a
\* negative length in the constructor, map on a weights member that is not
\* an array), and otherwise a model built from whatever the object holds
LoadResult(it) ==
    IF it.kind = "none" \/ it.kind = "corrupt" THEN LoadedNull
    ELSE IF it.nVisible < 0 \/ it.nHidden < 0 THEN LoadedNull
    ELSE IF ~it.hasWeights THEN LoadedNull
    ELSE [kind |-> "model",
          nVisible |-> it.nVisible,
          nHidden |-> it.nHidden,
          weights |-> [i \in DOMAIN it.weights |->
                         [j \in DOMAIN it.weights[i] |->
                            ToFloat32(it.weights[i][j])]],
          hiddenBias |-> [i \in DOMAIN it.hiddenBias |->
                            ToFloat32(it.hiddenBias[i])],
          visibleBias |-> [i \in DOMAIN it.visibleBias |->
                             ToFloat32(it.visibleBias[i])],
          trainingMethod |-> IF it.trainingMethod = "" THEN CD
                             ELSE it.trainingMethod]

\* saveToLocalStorage, setItem succeeding
SaveToLocalStorage ==
    /\ kpc = "store"
    /\ item' = Snapshot
    /\ saved' = "true"
    /\ kpc' = "stSaved"
    /\ UNCHANGED <<hookVars, fitVars, modelVars, data, fromFresh, saVars,
                   cdVars, eqVars, callVars, shuffleVars, loaded>>

\* saveToLocalStorage, setItem throwing (the quota is exceeded)
SaveToLocalStorageThrows ==
    /\ kpc = "store"
    /\ saved' = "false"
    /\ kpc' = "stSaveFailed"
    /\ UNCHANGED <<hookVars, fitVars, modelVars, data, fromFresh, saVars,
                   cdVars, eqVars, callVars, shuffleVars, item, loaded>>

\* loadFromLocalStorage, on the store as it is
LoadFromLocalStorage ==
    /\ kpc \in {"store", "stSaved", "stSaveFailed"}
    /\ loaded' = LoadResult(item)
    /\ kpc' = IF kpc = "stSaved" THEN "stRoundTrip" ELSE "stLoaded"
    /\ UNCHANGED <<hookVars, fitVars, modelVars, data, fromFresh, saVars,
                   cdVars, eqVars, callVars, shuffleVars, item, saved>>

\* ------------------------------------------------------------------------
\* Saving and loading small models.  The parameters are values a Float32Array
\* of a trained model can hold: finite ones, and NaN and the infinities that
\* the unclamped contrastive-divergence update leaves when learningRate *
\* gradient overflows or a sample holds NaN.  The store starts with whatever
\* an earlier session, another version of the page or the user left in it.
\* ------------------------------------------------------------------------
\* <<weight, bias>>
StoreModels ==
    {0, FreshScale, -WeightClamp, NaN, PosInf, NegInf} \X {0, BiasClamp, NaN}

StoredObjects ==
    { [kind |-> "object", nVisible |-> nv, nHidden |-> MaxHidden,
       hasWeights |-> TRUE,
       weights |-> Uniform(rows, Uniform(cols, e)),
       hiddenBias |-> Uniform(hl, e),
       visibleBias |-> Uniform(MaxVisible, e),
       trainingMethod |-> t] :
        nv \in {-1, MaxVisible}, rows \in {MaxHidden, MaxHidden + 1},
        cols \in {MaxVisible - 1, MaxVisible}, hl \in {MaxHidden - 1, MaxHidden},
        e \in {FreshScale, JsonNull}, t \in {"", EQ} }

StoredItems ==
    {NoItem, [NoItem EXCEPT !.kind = "corrupt"],
     [NoItem EXCEPT !.kind = "object", !.nVisible = MaxVisible,
                    !.nHidden = MaxHidden]}
    \cup StoredObjects

InitStore ==
    /\ InitPartOneIdle
    /\ InitSaIdle /\ InitCdIdle /\ InitEqIdle /\ InitCallIdle /\ InitShuffleIdle
    /\ nVisible = MaxVisible /\ nHidden = MaxHidden
    /\ learningRate = HookRate
    /\ modelMethod \in {CD, SA}
    /\ \E m \in StoreModels :
         /\ weights = Uniform(MaxHidden, Uniform(MaxVisible, m[1]))
         /\ hiddenBias = Uniform(MaxHidden, m[2])
         /\ visibleBias = Uniform(MaxVisible, m[2])
    /\ fromFresh = FALSE
    /\ data = <<>>
    /\ kpc = "store"
    /\ item \in StoredItems
    /\ saved = "notCalled"
    /\ loaded = NotLoaded

NextStore ==
    \/ SaveToLocalStorage
    \/ SaveToLocalStorageThrows
    \/ LoadFromLocalStorage

SpecStore == InitStore /\ [][NextStore]_vars

\* ------------------------------------------------------------------------
\* new BernoulliRBM({nVisible, nHidden, learningRate, batchSize,
\* trainingMethod}).  At the call nVisible, nHidden, learningRate and
\* modelMethod hold the arguments, which the constructor copies into the
\* fields before it builds the arrays.
\* ------------------------------------------------------------------------
\* weightsScale: 0.005 for the equilibrium method, 0.01 otherwise
FreshScaleFor(m) == IF m = EQ THEN Q \div 200 ELSE FreshScale

\* the entries (Math.random() - 0.5) * 2 * scale can give: the two ends of
\* the range and its middle
FreshEntries(m) == {-FreshScaleFor(m), 0, FreshScaleFor(m)}

\* new Float32Array(n) throws a RangeError for a negative length, and for
\* no other
LengthThrows(n) == n < 0

\* the constructor returns: random weights, zero biases
Construct ==
    /\ kpc = "newCall"
    /\ ~LengthThrows(nHidden) /\ ~LengthThrows(nVisible)
    /\ \E w \in FreshEntries(modelMethod) :
         weights' = Uniform(nHidden, Uniform(nVisible, w))
    /\ hiddenBias' = Uniform(nHidden, 0)
    /\ visibleBias' = Uniform(nVisible, 0)
    /\ kpc' = "newDone"
    /\ UNCHANGED <<hookVars, fitVars, nVisible, nHidden, learningRate,
                   modelMethod, data, fromFresh, saVars, cdVars, eqVars, callVars, shuffleVars, storeVars>>

\* the constructor throws: a row of randomMatrix, hiddenBias or visibleBias
\* is asked for with a negative length; no model is returned
ConstructThrows ==
    /\ kpc = "newCall"
    /\ LengthThrows(nHidden) \/ LengthThrows(nVisible)
    /\ kpc' = "newThrew"
    /\ UNCHANGED <<hookVars, fitVars, modelVars, data, fromFresh, saVars,
                   cdVars, eqVars, callVars, shuffleVars, storeVars>>

\* fit(data, 1) is called on the model the constructor returned, built with
\* batchSize 1, on a dataset of 1..MaxN samples
ConstructedFit ==
    /\ kpc = "newDone" /\ fpc[1] = "idle" /\ cur = 0
    /\ newRBM' = [newRBM EXCEPT ![1] = 1]
    /\ fitsOn' = [fitsOn EXCEPT ![1] = @ + 1]
    /\ fMethod' = [fMethod EXCEPT ![1] = modelMethod]
    /\ \E n \in 1..MaxN : fN' = [fN EXCEPT ![1] = n]
    /\ fBatch' = [fBatch EXCEPT ![1] = 1]
    /\ fEpochsArg' = [fEpochsArg EXCEPT ![1] = 1]
    /\ fpc' = [fpc EXCEPT ![1] = "called"]
    /\ cur' = 1
    /\ UNCHANGED <<isTraining, rbm, abortCurrent, aborted, stored, nextRun,
                   tpc, tMethod, stopPhase, epoch, batchIdx, events, updates>>
    /\ UNCHANGED kernelVars

\* layer sizes handed to the constructor
SizeArgs == -1..MaxVisible

InitNew ==
    /\ InitPartOneIdle
    /\ InitSaIdle /\ InitCdIdle /\ InitEqIdle /\ InitCallIdle /\ InitShuffleIdle /\ InitStoreIdle
    /\ nVisible \in SizeArgs /\ nHidden \in SizeArgs
    /\ learningRate \in {HookRate, Q}
    /\ modelMethod \in Methods
    /\ weights = <<>> /\ hiddenBias = <<>> /\ visibleBias = <<>>
    /\ fromFresh = TRUE
    /\ data = <<>>
    /\ kpc = "newCall"

NextNew ==
    \/ Construct
    \/ ConstructThrows
    \/ ConstructedFit
    \/ FitStep(1)

SpecNew == InitNew /\ [][NextNew]_vars

\* ------------------------------------------------------------------------
\* Properties of the hook and of the control flow of fit
\* ------------------------------------------------------------------------
\* C1 (as claimed): once stopTraining has aborted the controller of a running
\* training, the fit writes no parameter after the next point at which it
\* yields.  The fit takes no signal and runs every remaining batch.
C1_NoUpdateAfterStopYield ==
    [][\A r \in Runs :
          stopPhase[r] = "yielded" => updates'[r] <= updates[r]]_vars

\* C2: progressCallback is called once per completed epoch, with first
\* arguments 1, 2, ... in order and a second argument that is on every call
\* the number of epochs the fit runs; a fit that returns has made exactly
\* that many calls.
C2_CallbackSequence ==
    \A r \in Runs :
        LET calls == Callbacks(events[r]) IN
        /\ Len(calls) <= TotalEpochs(r)
        /\ \A i \in 1..Len(calls) : calls[i] = <<i, TotalEpochs(r)>>
        /\ fpc[r] = "done" =>
              /\ epoch[r] = TotalEpochs(r)
              /\ Len(calls) = TotalEpochs(r)

\* a fit asked for more epochs than its method's cap has returned, having
\* called back once for each epoch it ran
C2_Witness ==
    /\ fpc[1] = "done"
    /\ fEpochsArg[1] > TotalEpochs(1)
    /\ Len(Callbacks(events[1])) = TotalEpochs(1)
    /\ TotalEpochs(1) > 0

\* C3 (as claimed): for every method, progressCallback(k, total) comes after
\* every parameter write of epoch k and before any write of epoch k+1: in a
\* fit whose trainer calls all wrote, a call that precedes the callback
\* belongs to an epoch up to k, a call that follows it to a later epoch.
\* The annealing branch calls back first and anneals afterwards.
C3_CallbackAfterUpdates ==
    \A r \in Runs :
        updates[r] = Cardinality(TrainIndices(events[r])) =>
            \A i \in CallbackIndices(events[r]) :
                \A j \in TrainIndices(events[r]) :
                    IF j < i THEN events[r][j][2] <= events[r][i][2]
                             ELSE events[r][j][2] > events[r][i][2]

\* C4: no instance ever has two fit invocations in progress.
C4_OneFitPerInstance == \A i \in Instances : fitsOn[i] <= 1

\* two fits are in progress at once, on two instances: a stopped run is
\* still fitting while the next run fits its own model
C4_Witness ==
    \E r1, r2 \in Runs :
        /\ r1 # r2
        /\ fpc[r1] \in YieldPcs /\ fpc[r2] \in YieldPcs
        /\ newRBM[r1] # newRBM[r2]
        /\ fitsOn[newRBM[r1]] = 1 /\ fitsOn[newRBM[r2]] = 1

\* C16: the instance in the hook's rbm state, when there is one, has no fit
\* invocation in progress, whatever the order of trainNetwork, stopTraining
\* and loadSavedWeights
C16_PublishedModelNotFitting == rbm # 0 => fitsOn[rbm] = 0

\* a trained model is published while a fit is in progress on another
\* instance
C16_Witness ==
    /\ rbm \in Runs
    /\ \E r \in Runs :
          /\ newRBM[r] \notin {0, rbm}
          /\ fpc[r] \in YieldPcs
          /\ fitsOn[newRBM[r]] = 1

\* ------------------------------------------------------------------------
\* Properties of simulatedAnnealing
\* ------------------------------------------------------------------------
AllWeights == {weights[j][i] : j \in DOMAIN weights, i \in DOMAIN visibleBias}
AllBiases ==
    {hiddenBias[j] : j \in DOMAIN hiddenBias}
      \cup {visibleBias[i] : i \in DOMAIN visibleBias}

\* C5: in annealing that starts from a fresh model, after any proposals and
\* updates every weight is a number in [-2, 2] and every bias one in [-1, 1].
C5_ParametersWithinClamps ==
    fromFresh =>
        /\ \A w \in AllWeights : IsFinite(w) /\ -WeightClamp <= w /\ w <= WeightClamp
        /\ \A b \in AllBiases : IsFinite(b) /\ -BiasClamp <= b /\ b <= BiasClamp

\* an update has just been applied to parameters that descend from a fresh
\* model, and it has left a weight and a bias on their clamps
C5_Witness ==
    /\ fromFresh
    /\ lastOutcome = "updated"
    /\ \E w \in AllWeights : w = WeightClamp
    /\ \E b \in AllBiases : b = BiasClamp

\* C6: a proposal with finite energies and proposedEnergy - currentEnergy <= 0
\* is accepted: the step that decides it counts an accepted move and makes
\* the proposal the current state.
C6_DownhillAccepted ==
    [][(kpc = "saDecide" /\ IsFinite(currentEnergy) /\ IsFinite(proposedEnergy)
          /\ Le(Sub(proposedEnergy, currentEnergy), 0))
        => /\ lastOutcome' \in {"accepted", "updated"}
           /\ acceptedMoves' = acceptedMoves + 1
           /\ currentSample' = proposedSample
           /\ currentHidden' = proposedHidden]_vars

\* a proposal that did not raise the energy has been accepted
C6_Witness ==
    /\ lastOutcome \in {"accepted", "updated"}
    /\ kpc # "saDecide"
    /\ IsFinite(energyDiff) /\ energyDiff <= 0
    /\ currentSample = proposedSample /\ currentHidden = proposedHidden

\* C7: a step in which currentEnergy or proposedEnergy is not finite leaves
\* the current sample, hidden state and energy, the accepted-move counter
\* and every weight and bias as they were.
C7_NonFiniteSkipped ==
    [][(kpc = "saDecide"
          /\ (~IsFinite(currentEnergy) \/ ~IsFinite(proposedEnergy)))
        => /\ UNCHANGED <<currentSample, currentHidden, currentEnergy,
                          acceptedMoves, weights, hiddenBias, visibleBias>>
           /\ lastOutcome' = "skipped"]_vars

\* a step with a non-finite energy has been skipped
C7_Witness ==
    /\ lastOutcome = "skipped"
    /\ kpc # "saDecide"
    /\ ~IsFinite(currentEnergy) \/ ~IsFinite(proposedEnergy)

\* ------------------------------------------------------------------------
\* Properties of contrastiveDivergence
\* ------------------------------------------------------------------------
\* the batch is made of all-zero samples only
ZeroBatch == \A k \in DOMAIN data : data[k] = Uniform(nVisible, 0)

AllZeroWeights ==
    \A i \in 1..nHidden, j \in 1..nVisible : weights[i][j] = 0

C9_RoundTrip ==
    kpc = "stRoundTrip" =>
        /\ loaded.kind = "model"
        /\ loaded.nVisible = nVisible
        /\ loaded.nHidden = nHidden
        /\ loaded.weights = weights
        /\ loaded.hiddenBias = hiddenBias
        /\ loaded.visibleBias = visibleBias

\* the 'rbm_weights' entry is not the snapshot of a model: its text is
\* corrupt, or its arrays disagree with its nVisible and nHidden
Inconsistent(it) ==
    \/ it.kind = "corrupt"
    \/ /\ it.kind = "object"
       /\ \/ ~it.hasWeights
          \/ Len(it.weights) # it.nHidden
          \/ \E i \in DOMAIN it.weights : Len(it.weights[i]) # it.nVisible
          \/ Len(it.hiddenBias) # it.nHidden
          \/ Len(it.visibleBias) # it.nVisible

\* the dimensions of a model agree with its nVisible and nHidden
ConsistentModel(m) ==
    /\ Len(m.weights) = m.nHidden
    /\ \A i \in DOMAIN m.weights : Len(m.weights[i]) = m.nVisible
    /\ Len(m.hiddenBias) = m.nHidden
    /\ Len(m.visibleBias) = m.nVisible

\* C10 (as claimed): loadFromLocalStorage returns null for an entry that is
\* malformed or dimensionally inconsistent, and never returns a model whose
\* weights or bias dimensions disagree with its nVisible and nHidden.
C10_LoadRejectsInconsistent ==
    loaded.kind # "notCalled" =>
        /\ Inconsistent(item) => loaded.kind = "null"
        /\ loaded.kind = "model" => ConsistentModel(loaded)

\* ------------------------------------------------------------------------
\* Properties of the constructor
\* ------------------------------------------------------------------------
\* C11 (as claimed): the constructor fails for a non-positive nVisible or
\* nHidden: every model it returns has positive layer sizes, and every fit
\* that starts runs on a model of positive layer sizes.
C11_NonPositiveSizesRejected ==
    /\ kpc = "newDone" => (nVisible > 0 /\ nHidden > 0)
    /\ fpc[1] # "idle" => (nVisible > 0 /\ nHidden > 0)

\* ------------------------------------------------------------------------
\* Properties of the loops of simulatedAnnealing
\* ------------------------------------------------------------------------
\* some branch of the decision can be taken
DecisionOpen ==
    \/ ~EnergiesFinite
    \/ FALSE \in MetropolisOutcomes(energyDiff)
    \/ /\ TRUE \in MetropolisOutcomes(energyDiff)
       /\ UpdateDue(acceptedMoves + 1) => data # <<>>

\* C12: a simulated-annealing run on a non-empty dataset terminates, and the
\* number of its proposals is fixed by the temperatures, the cooling rate
\* and stepsPerTemperature alone.  The number of proposals still to come is
\* a natural number computed from temperature and step only; building a
\* proposal leaves it as it is, a proposal that has been built can always
\* be decided, every decided proposal lowers the number by exactly one
\* whether it is accepted, rejected or skipped, and the run is over exactly
\* when the number is zero.
C12_FixedProposalCount ==
    /\ [][kpc = "saPropose" => ProposalsToGo' = ProposalsToGo]_vars
    /\ [][kpc = "saDecide" =>
            /\ ProposalsToGo' = ProposalsToGo - 1
            /\ (kpc' = "saDone") <=> (ProposalsToGo' = 0)]_vars
    /\ [](ProposalsToGo >= 0)
    /\ [](kpc = "saDecide" => DecisionOpen)
    /\ [](kpc = "saBegin" => ProposalsToGo = Levels * StepsPerTemperature)

\* a run has been followed to its end
C12_Witness ==
    /\ kpc = "saDone"
    /\ temperature <= FinalTemperature /\ step = 0
    /\ lastOutcome \in {"skipped", "rejected", "accepted"}

\* ------------------------------------------------------------------------
\* Properties of equilibriumLearning
\* ------------------------------------------------------------------------
\* a component of an averaged activation is a number in [0, 1]
UnitInterval(x) == IsFinite(x) /\ Le(0, x) /\ Le(x, Q)

\* C13: for every batch, every burn-in length >= 0 and every negPhaseSamples
\* >= 1, when equilibriumLearning has averaged the negative phase every
\* component of negHidden and of negVisible is in [0, 1]; while the samples
\* are still being added up, a component is at most the number of samples
\* taken
C13_NegativePhaseInUnitInterval ==
    /\ kpc = "eqDone" =>
          /\ \A i \in 1..nHidden : UnitInterval(negHidden[i])
          /\ \A j \in 1..nVisible : UnitInterval(negVisible[j])
    /\ kpc = "eqChain" =>
          /\ \A i \in 1..nHidden : negHidden[i] \in 0..(negS * Q)
          /\ \A j \in 1..nVisible : negVisible[j] \in 0..(negS * Q)

\* an average of two samples or more that are not all alike has been taken,
\* on a chain that went through its burn-in
C13_Witness ==
    /\ kpc = "eqDone"
    /\ negPhaseSamples >= 2 /\ negS = negPhaseSamples
    /\ gibbsSteps >= 1 /\ gibbsI = gibbsSteps
    /\ \E i \in 1..nHidden : negHidden[i] \notin {0, Q}
    /\ \E j \in 1..nVisible : negVisible[j] = Q

\* ------------------------------------------------------------------------
\* Properties of the trainers
\* ------------------------------------------------------------------------
\* C14: no step of a trainer changes a value of a sample of data: the chain
\* states and the annealing proposals it assigns to are arrays of its own
C14_SamplesNotMutated == [][data' = data]_vars

\* an annealing run holds, as its current state, an accepted proposal that
\* differs from every sample of data, in an array of its own
C14_Witness ==
    /\ kpc \in {"saPropose", "saDone"}
    /\ lastOutcome \in {"accepted", "updated"}
    /\ currentSampleRef \notin DOMAIN data
    /\ \A k \in DOMAIN data : currentSample # data[k]

\* the positions of kpc inside each trainer
SaPositions == {"saBegin", "saPropose", "saDecide", "saDone"}
CdPositions == {"cdCall", "cdDone"}
EqPositions == {"eqCall", "eqChain", "eqDone", "eqThrew"}

\* C15 (as claimed): the trainer fit runs is the one the tag names, for each
\* of the three tags, and no step changes the tag
C15_TagSelectsTrainer ==
    /\ [](kpc \in CdPositions => modelMethod = CD)
    /\ [](kpc \in SaPositions => modelMethod = SA)
    /\ [](kpc \in EqPositions => modelMethod = EQ)
    /\ [][modelMethod' = modelMethod]_vars

\* ------------------------------------------------------------------------
\* Properties of computeEnergy and reconstruct
\* ------------------------------------------------------------------------
\* the pairs <<i, j>> of a visible and a hidden unit, in a row
RECURSIVE PairsFrom(_, _)
PairsFrom(i, j) ==
    IF i > nVisible THEN <<>>
    ELSE IF j > nHidden THEN PairsFrom(i + 1, 1)
    ELSE <<<<i, j>>>> \o PairsFrom(i, j + 1)

\* minus (sum of visibleBias[i] * visible[i], plus sum of hiddenBias[j] *
\* hidden[j], plus sum over the pairs of weights[j][i] * visible[i] *
\* hidden[j])
EnergyFormula(visible, hidden) ==
    LET pairs == PairsFrom(1, 1)
        biasV == [i \in 1..nVisible |-> Mul(visibleBias[i], visible[i])]
        biasH == [j \in 1..nHidden |-> Mul(hiddenBias[j], hidden[j])]
        inter == [k \in DOMAIN pairs |->
                    Mul(Mul(weights[pairs[k][2]][pairs[k][1]],
                            visible[pairs[k][1]]), hidden[pairs[k][2]])]
    IN Neg(SumSeq(biasV \o biasH \o inter))

\* the model and the vectors of the energy test
ExampleCall ==
    /\ weights = ExampleWeights
    /\ hiddenBias = ExampleHiddenBias
    /\ visibleBias = ExampleVisibleBias
    /\ callVisible = ExampleVisibleVector
    /\ callHidden = ExampleHiddenVector

\* C17: computeEnergy returns minus the visible bias term, minus the hidden
\* bias term, minus the interaction term; on the model and vectors of the
\* energy test that is -0.6
C17_EnergyFormula ==
    kpc = "energyDone" =>
        /\ returned.energy = EnergyFormula(callVisible, callHidden)
        /\ ExampleCall => returned.energy = -((6 * Q) \div 10)

\* computeEnergy has returned on the model and vectors of the energy test
C17_Witness ==
    /\ kpc = "energyDone"
    /\ returned.kind = "energy"
    /\ ExampleCall

\* C18: on a model whose weights and biases are all zero, reconstruct
\* returns 0.5 in every component of hidden and of reconstruction for every
\* sample, and no call of reconstruct changes the parameters or the sample
C18_ZeroModelReconstruction ==
    /\ [](( /\ kpc = "reconstructDone"
            /\ AllWeights = {0} /\ AllBiases = {0} ) =>
           /\ returned.hidden = Uniform(nHidden, Q \div 2)
           /\ returned.reconstruction = Uniform(nVisible, Q \div 2))
    /\ [][kpc = "reconstructCall" =>
            /\ weights' = weights
            /\ hiddenBias' = hiddenBias
            /\ visibleBias' = visibleBias
            /\ callVisible' = callVisible]_vars

\* reconstruct has returned on an all-zero model for a sample that is not
\* 0.5 throughout
C18_Witness ==
    /\ kpc = "reconstructDone"
    /\ AllWeights = {0} /\ AllBiases = {0}
    /\ callVisible # Uniform(nVisible, Q \div 2)
    /\ returned.kind = "reconstruct"

\* ------------------------------------------------------------------------
\* Properties of the batches of fit
\* ------------------------------------------------------------------------
\* no value occurs twice in the sequence
NoRepeats(seq) ==
    \A k1, k2 \in DOMAIN seq : seq[k1] = seq[k2] => k1 = k2

\* every idx of the batch last formed is an index of a sample
BatchInRange ==
    \A k \in DOMAIN batchIndices : batchIndices[k] \in 0..(fN[1] - 1)

\* C19 (as claimed): a batch of the equilibrium branch has at most batchSize
\* elements, each read at an index in [0, N), and no index is read twice in
\* one epoch
C19_EquilibriumBatches ==
    fMethod[1] = EQ =>
        /\ Len(batchIndices) <= fBatch[1]
        /\ BatchInRange
        /\ NoRepeats(usedIndices)

\* C20: in the contrastive-divergence branch with batchSize <= N every batch
\* has exactly batchSize elements read at indices in [0, N), no index is
\* read twice in one epoch, no batch makes the trainer throw, and an epoch
\* that is over has run floor(N / batchSize) batches
C20_ContrastiveDivergenceBatches ==
    (fMethod[1] = CD /\ fBatch[1] <= fN[1]) =>
        /\ batchIndices # <<>> => Len(batchIndices) = fBatch[1]
        /\ BatchInRange
        /\ NoRepeats(usedIndices)
        /\ fpc[1] # "threw"
        /\ (fpc[1] = "epochTop" /\ epoch[1] > 0) =>
              /\ batchIdx[1] = fN[1] \div fBatch[1]
              /\ Len(usedIndices) = fBatch[1] * (fN[1] \div fBatch[1])

\* a contrastive-divergence epoch is over that left samples unused
C20_Witness ==
    /\ fMethod[1] = CD
    /\ fpc[1] = "epochTop" /\ epoch[1] > 0
    /\ fBatch[1] >= 2 /\ fBatch[1] <= fN[1]
    /\ fN[1] % fBatch[1] # 0
    /\ Len(usedIndices) = fBatch[1]

\* ------------------------------------------------------------------------
\* Properties of the proposals of simulatedAnnealing
\* ------------------------------------------------------------------------
\* the hidden units in which two hidden states differ
DifferingUnits(h1, h2) == {j \in DOMAIN h1 : h1[j] # h2[j]}

\* C21 (as claimed): the proposed hidden state of every proposal differs
\* from the current hidden state in exactly min(3, nHidden) hidden units.
\* The indices are drawn independently: a unit drawn twice is flipped back.
C21_ProposalFlipsExactly ==
    [][kpc = "saPropose" =>
          Cardinality(DifferingUnits(proposedHidden', currentHidden))
             = Min(MaxFlips, nHidden)]_vars

\* ------------------------------------------------------------------------
\* Properties of the parameter updates of simulatedAnnealing
\* ------------------------------------------------------------------------
\* C22: the update block of a run is entered exactly by an accepted move
\* that brings acceptedMoves to a multiple of 10; a proposal that is
\* rejected or skipped, and the building of a proposal, write no parameter;
\* so the number of updates is floor(acceptedMoves / 10) throughout, and at
\* the end of the run.
C22_UpdateEveryTenthAcceptedMove ==
    /\ [][kpc = "saDecide" =>
            /\ paramUpdates' \in {paramUpdates, paramUpdates + 1}
            /\ (paramUpdates' = paramUpdates + 1) <=>
                  /\ acceptedMoves' = acceptedMoves + 1
                  /\ acceptedMoves' % UpdateEvery = 0
            /\ paramUpdates' = paramUpdates => Parameters' = Parameters
            /\ lastOutcome' \in {"rejected", "skipped"} =>
                  /\ paramUpdates' = paramUpdates
                  /\ acceptedMoves' = acceptedMoves]_vars
    /\ [][kpc = "saPropose" =>
            /\ Parameters' = Parameters
            /\ paramUpdates' = paramUpdates]_vars
    /\ [](kpc \in {"saPropose", "saDecide", "saDone"} =>
            paramUpdates = acceptedMoves \div UpdateEvery)

\* a run has ended on an accepted move that was the twentieth, and whose
\* update wrote a parameter
C22_Witness ==
    /\ kpc = "saDone"
    /\ lastOutcome = "updated"
    /\ acceptedMoves = 2 * UpdateEvery
    /\ paramUpdates = 2
    /\ weights[1][1] \notin {FreshScale, WeightClamp, -WeightClamp}

\* ------------------------------------------------------------------------
\* Properties of the current and the proposed state of simulatedAnnealing
\* ------------------------------------------------------------------------
CurrentState == <<currentSample, currentHidden, currentEnergy>>

\* building a proposal, and rejecting one, leave the current state alone
RejectedKeepsCurrent ==
    /\ [][kpc = "saPropose" => CurrentState' = CurrentState]_vars
    /\ [][(kpc = "saDecide" /\ lastOutcome' = "rejected") =>
            CurrentState' = CurrentState]_vars

\* C23 (as claimed): a rejected proposal leaves currentSample, currentHidden
\* and currentEnergy as they were before the proposal was built, and an
\* accepted proposal replaces all three with the proposed sample, hidden
\* state and energy.
C23_AcceptedReplacesAllThree ==
    /\ RejectedKeepsCurrent
    /\ [][(kpc = "saDecide" /\ lastOutcome' \in {"accepted", "updated"}) =>
            /\ currentSample' = proposedSample
            /\ currentHidden' = proposedHidden
            /\ currentEnergy' = proposedEnergy]_vars

\* C23 (amended): a rejected proposal leaves the three as they were before
\* the proposal was built; an accepted proposal replaces currentSample and
\* currentHidden with the proposed ones, and currentEnergy with the
\* proposed energy unless the move is one that updates the parameters:
\* then currentEnergy is the energy of the accepted state under the
\* parameters just written.
C23_AcceptedReplacesState ==
    /\ RejectedKeepsCurrent
    /\ [][(kpc = "saDecide" /\ lastOutcome' \in {"accepted", "updated"}) =>
            /\ currentSample' = proposedSample
            /\ currentHidden' = proposedHidden
            /\ currentEnergy' =
                 IF lastOutcome' = "accepted" THEN proposedEnergy
                 ELSE Energy(weights', hiddenBias', visibleBias',
                             proposedSample, proposedHidden)]_vars

\* a proposal that differs from the current state in the sample and in the
\* hidden unit has been rejected
C23_Witness ==
    /\ lastOutcome = "rejected"
    /\ kpc # "saDecide"
    /\ proposedSample # currentSample
    /\ proposedHidden # currentHidden
    /\ proposedEnergy # currentEnergy

\* ------------------------------------------------------------------------
\* Properties of the temperature of simulatedAnnealing
\* ------------------------------------------------------------------------
\* along the temperatures of a whole run each is below the one before, and
\* the first that is not above the final temperature is the last one used
ScheduleDecreases ==
    /\ CoolingSchedule[1] = InitialTemperature
    /\ \A k \in 1..Levels : CoolingSchedule[k + 1] < CoolingSchedule[k]
    /\ CoolingSchedule[Levels] > FinalTemperature
    /\ CoolingSchedule[Levels + 1] <= FinalTemperature

\* C24: the temperature of a run starts at the initial temperature and never
\* increases; it is multiplied by the cooling rate once after the last
\* proposal of each group of stepsPerTemperature proposals and is left
\* alone by every other step; the run goes on while the cooled temperature
\* is above the final temperature and stops at the first cooling that
\* brings it to the final temperature or below.
C24_CoolingSchedule ==
    /\ [][kpc = "saBegin" => temperature' = InitialTemperature]_vars
    /\ [][kpc = "saPropose" => temperature' = temperature]_vars
    /\ [][kpc = "saDecide" =>
            IF step + 1 < StepsPerTemperature
              THEN /\ temperature' = temperature
                   /\ step' = step + 1
                   /\ kpc' = "saPropose"
              ELSE /\ temperature' = Mul(temperature, CoolingRate)
                   /\ temperature' < temperature
                   /\ step' = 0
                   /\ (kpc' = "saDone") <=> (temperature' <= FinalTemperature)
                   /\ (kpc' = "saPropose") <=> (temperature' > FinalTemperature)
         ]_vars
    /\ [](kpc \in {"saPropose", "saDecide"} =>
            /\ temperature > FinalTemperature
            /\ temperature <= InitialTemperature)
    /\ [](kpc = "saDone" => temperature <= FinalTemperature)
    /\ [](ScheduleDecreases)

\* the first group of proposals is over: the temperature has been cooled
\* once and the run goes on
C24_Witness ==
    /\ kpc = "saPropose"
    /\ lastOutcome # "none"
    /\ step = 0
    /\ temperature = Mul(InitialTemperature, CoolingRate)
    /\ temperature < InitialTemperature

\* ------------------------------------------------------------------------
\* Properties of the energy simulatedAnnealing carries along
\* ------------------------------------------------------------------------
\* C29: at the start of every proposal step currentEnergy is the value
\* computeEnergy(currentSample, currentHidden) has under the weights and
\* biases of that moment (NaN counted as equal to NaN): after the initial
\* state, after accepted, rejected and skipped proposals, and after the
\* parameter updates of the run.
C29_CurrentEnergyInStep ==
    kpc = "saPropose" =>
        currentEnergy = computeEnergy(currentSample, currentHidden)

\* a proposal step starts after an accepted move whose update changed the
\* energy of the state it accepted
C29_Witness ==
    /\ kpc = "saPropose"
    /\ lastOutcome = "updated"
    /\ IsFinite(currentEnergy)
    /\ currentEnergy # proposedEnergy
    /\ currentSample = proposedSample /\ currentHidden = proposedHidden

\* ------------------------------------------------------------------------
\* Properties of the update of equilibriumLearning
\* ------------------------------------------------------------------------
\* the rate 0.01 and the decay 0.99 of the update, as numbers
OneHundredth == Q \div 100
NinetyNineHundredths == (99 * Q) \div 100

\* C25: the equilibrium update does not read the model's learningRate.  A
\* second model that differs from the model in learningRate only, on which
\* the call runs with the same batch and the same draws, has the model's
\* parameters all through the call (so the draws of its chain fall as the
\* model's do) and the model's parameters when the call is over; and every
\* weight ends as (w + 0.01 * (posPhase - negPhase)) * 0.99, every bias as
\* b + 0.01 * (pos - neg), without decay.
C25_UpdateIgnoresLearningRate ==
    /\ [](kpc \in {"eqCall", "eqChain", "eqDone"} =>
            /\ twinRate # learningRate
            /\ twinParams = Parameters)
    /\ [][(kpc = "eqChain" /\ kpc' = "eqDone") =>
            /\ \A i \in 1..nHidden, j \in 1..nVisible :
                  weights'[i][j] =
                     Mul(Add(weights[i][j],
                             Mul(OneHundredth,
                                 Sub(posPhase[i][j], negPhase'[i][j]))),
                         NinetyNineHundredths)
            /\ \A i \in 1..nHidden :
                  hiddenBias'[i] =
                     Add(hiddenBias[i],
                         Mul(OneHundredth, Sub(posHidden[i], negHidden'[i])))
            /\ \A j \in 1..nVisible :
                  visibleBias'[j] =
                     Add(visibleBias[j],
                         Mul(OneHundredth,
                             Sub(posVisible[j], negVisible'[j])))]_vars

\* a call is over whose update changed a weight and a bias of both models
C25_Witness ==
    /\ kpc = "eqDone"
    /\ twinRate # learningRate
    /\ twinParams = Parameters
    /\ IsFinite(weights[1][1])
    /\ \E m \in EqModels :
          /\ weights[1][1] \notin {m[1], Mul(m[1], NinetyNineHundredths)}
          /\ visibleBias[1] # m[2]

\* ------------------------------------------------------------------------
\* Properties of stopTraining and of later trainNetwork calls
\* ------------------------------------------------------------------------
\* C26 (as claimed): a training run during whose fit stopTraining was called
\* never calls setRBM with its model and never saves it: the step in which
\* such a run ends leaves the hook's rbm and the store as they were.  The
\* run reads the controller that is in the ref when its fit resolves, which
\* a later trainNetwork call has replaced with one that is not aborted.
C26_StoppedRunNeverPublishes ==
    [][\A r \in Runs :
          (stopPhase[r] # "none" /\ tpc[r] = "fitting" /\ tpc'[r] = "done")
             => (rbm' = rbm /\ stored' = stored)]_vars

\* a fit started by trainNetwork has been called and has not settled, or
\* has settled in a task that is still running
FitInProgress(r) == tpc[r] = "fitting" /\ fpc[r] \in YieldPcs \cup {"called"}

\* C27 (as claimed): at most one fit started by trainNetwork is in progress
\* at any time, and while one is in progress isTraining is true (so that a
\* further trainNetwork call returns at its guard).  stopTraining sets
\* isTraining to false while the fit goes on.
C27_AtMostOneFit ==
    /\ Cardinality({r \in Runs : FitInProgress(r)}) <= 1
    /\ (\E r \in Runs : FitInProgress(r)) => isTraining

\* ------------------------------------------------------------------------
\* The hook under the scheduling of the event loop: a promise that can
\* settle does settle and a timer that is due fires, so a step of a run
\* that stays possible is taken
\* ------------------------------------------------------------------------
\* the steps of run r of trainNetwork and of its fit
RunStep(r) ==
    \/ TrainLoadFails(r)
    \/ TrainLoadedAborted(r)
    \/ TrainSelectHangs(r)
    \/ TrainStartFit(r)
    \/ TrainFitThrew(r)
    \/ TrainFitDoneAborted(r)
    \/ TrainPublish(r)
    \/ FitCall(r)
    \/ FitResumeBatch(r)
    \/ FitResumeEpoch(r)

SpecLive == Init /\ [][Next]_vars /\ \A r \in Runs : WF_vars(RunStep(r))

\* C28 (as claimed): every trainNetwork call that has set isTraining to
\* true reaches its finally block, which sets isTraining to false, whether
\* the run completes, returns at an abort check or fails in loadData or in
\* fit.  With annealing selected and fewer than ten samples loaded, the
\* selection loop of the call never ends.
C28_TrainingFlagReset ==
    /\ \A r \in Runs : (tpc[r] = "loading") ~> (tpc[r] = "done")
    /\ [][\A r \in Runs :
            (tpc[r] # "done" /\ tpc'[r] = "done") => ~isTraining']_vars


\* ------------------------------------------------------------------------
\* Properties of a contrastive-divergence fit on fewer samples than a batch
\* ------------------------------------------------------------------------
\* progressCallback(1, nEpochs), ..., progressCallback(nEpochs, nEpochs)
EveryEpochReported(r) == [k \in 1..fEpochsArg[r] |-> <<k, fEpochsArg[r]>>]

\* C30: a contrastive-divergence fit on fewer samples than batchSize (an
\* empty dataset included) never calls the trainer and never throws, leaves
\* the weights and biases as they were before the call, and by its return
\* has called progressCallback once for every epoch 1..nEpochs, in order
C30_SmallDatasetNoUpdate ==
    (fMethod[1] = CD /\ fN[1] < fBatch[1]) =>
        /\ TrainIndices(events[1]) = {}
        /\ updates[1] = 0
        /\ InitModelIdle
        /\ fpc[1] # "threw"
        /\ fpc[1] = "done" => Callbacks(events[1]) = EveryEpochReported(1)

\* a contrastive-divergence fit of two or more epochs on one sample and
\* batchSize 2 has returned
C30_Witness ==
    /\ fMethod[1] = CD
    /\ fN[1] = 1 /\ fBatch[1] = 2
    /\ fEpochsArg[1] >= 2
    /\ fpc[1] = "done"
    /\ Len(events[1]) = fEpochsArg[1]

====
